---- MODULE Spec2Model ----
(***************************************************************************)
(* Medvault claim pipeline: the Coding Assembler (src/core/coding.py),     *)
(* the Claim Builder (src/cms1500/generator.py), the Claim schema          *)
(* (src/cms1500/schema.py) and the Validator (src/cms1500/rules.py).       *)
(* Around them: the extractor (src/core/extraction.py), the model client   *)
(* (src/llm/ollama.py) and the application session (src/app.py).           *)
(*                                                                         *)
(* Conventions.                                                            *)
(*  - A code is a sequence of one-character strings, so that split('-'),   *)
(*    len() and the regular expressions are computed, not assumed.         *)
(*  - A Python dict is a sequence of [k, v] entries in insertion order.    *)
(*  - An optional string is a string; "" stands for None and for "" (the   *)
(*    code reads these fields by truthiness only).  An optional code or    *)
(*    modifier is a sequence; << >> stands for None and for "".            *)
(*  - A confidence is an integer number of tenths (9 is 0.9).              *)
(***************************************************************************)
EXTENDS Integers, Sequences, FiniteSets, TLC

VARIABLES
    pc,                     \* position in the pipeline
    use_llm,                \* MedicalCodingAssistant.use_llm
    llm_response,           \* what the model client returns to _llm_suggest_codes
    existing_diagnoses,     \* suggest_codes argument
    existing_procedures,    \* suggest_codes argument
    extraction_confidence,  \* suggest_codes argument, NoConfidence when absent
    all_diagnoses,          \* suggest_codes local
    all_procedures,         \* suggest_codes local
    diagnosis_letters,      \* suggest_codes local
    dx_proc_map,            \* suggest_codes local
    mismatches,             \* suggest_codes local
    overall_confidence,     \* suggest_codes local: [num, den], the score is num/den
    backfill_runs,          \* how many times _update_diagnosis_pointers has run
    first_backfill,         \* all_procedures as the first back-fill run left them
    text,                   \* the document: what the extractor's patterns capture in it
    llm_extract,            \* what the model client returns to _llm_extract
    extracted_data,         \* the ExtractedData extract returns
    overrides,              \* create_claim keyword overrides
    claim_data,             \* keyword arguments handed to CMS1500Claim
    cms1500_claim,          \* the CMS1500Claim built
    validation_result,      \* the ValidationResult
    repeated_claim,         \* the CMS1500Claim of a second create_claim on the same arguments
    post_attempts,          \* POSTs the client's session has made in this invocation
    retry_total,            \* what is left of the session's Retry.total
    authenticated,          \* st.session_state.authenticated
    username,               \* st.session_state.username
    consent_given,          \* st.session_state.consent_given
    consents,               \* users whose consent record_consent has recorded
    invoked_for             \* users for whom extract and suggest_codes were invoked

coding_vars == <<use_llm, llm_response, existing_diagnoses, existing_procedures,
                 extraction_confidence, all_diagnoses, all_procedures,
                 diagnosis_letters, dx_proc_map, mismatches, overall_confidence,
                 backfill_runs, first_backfill>>

claim_vars == <<text, llm_extract, extracted_data, overrides, claim_data,
                cms1500_claim, validation_result, repeated_claim>>

request_vars == <<post_attempts, retry_total>>

session_vars == <<authenticated, username, consent_given, consents, invoked_for>>

vars == <<pc, coding_vars, claim_vars, request_vars, session_vars>>

(***************************************************************************)
(* Bounds of the model.                                                    *)
(***************************************************************************)
MaxDx == 13          \* longest list of existing diagnoses
MaxProc == 7         \* longest list of existing procedures
MaxShortDx == 2      \* longest list of diagnoses with varied attributes
MaxShortProc == 2    \* longest list of procedures with varied attributes

(***************************************************************************)
(* Program constants.                                                      *)
(***************************************************************************)
MaxDiagnoses == 12           \* diagnoses[:12]
LLMThreshold == 6            \* suggestion.confidence >= 0.6
ConfidenceScale == 10        \* tenths
NoConfidence == 0 - 1        \* extraction_confidence is None

Letters == <<"A", "B", "C", "D", "E", "F", "G", "H", "I", "J", "K", "L">>

Min(a, b) == IF a < b THEN a ELSE b
Max(a, b) == IF a > b THEN a ELSE b

(***************************************************************************)
(* Python dict, in insertion order.                                        *)
(***************************************************************************)
DictHas(d, key) == \E i \in 1..Len(d) : d[i].k = key
DictIdx(d, key) == CHOOSE i \in 1..Len(d) : d[i].k = key
DictGet(d, key) == d[DictIdx(d, key)].v
DictSet(d, key, val) ==
    IF DictHas(d, key)
    THEN [d EXCEPT ![DictIdx(d, key)] = [k |-> key, v |-> val]]
    ELSE Append(d, [k |-> key, v |-> val])
DictPop(d, key) ==
    LET i == DictIdx(d, key)
    IN  SubSeq(d, 1, i - 1) \o SubSeq(d, i + 1, Len(d))
DictKeys(d) == [i \in 1..Len(d) |-> d[i].k]
DictValues(d) == [i \in 1..Len(d) |-> d[i].v]

Range(s) == {s[i] : i \in 1..Len(s)}

(***************************************************************************)
(* str.split('-')[0] and str.split('-')[1].                                *)
(***************************************************************************)
DashAt(code) == {i \in 1..Len(code) : code[i] = "-"}
FirstDash(code) == CHOOSE i \in DashAt(code) : \A j \in DashAt(code) : i <= j
SplitFirst(code) ==
    IF DashAt(code) = {} THEN code ELSE SubSeq(code, 1, FirstDash(code) - 1)
SplitSecond(code) ==
    LET rest == SubSeq(code, FirstDash(code) + 1, Len(code))
    IN  SplitFirst(rest)

Digits == {"0", "1", "2", "3", "4", "5", "6", "7", "8", "9"}
IsDigits(s) == Len(s) > 0 /\ \A i \in 1..Len(s) : s[i] \in Digits

(***************************************************************************)
(* CodeSuggestion records.                                                 *)
(***************************************************************************)
EmptyMetadata ==
    [has_pointers |-> FALSE, diagnosis_pointers |-> << >>,
     modifier |-> << >>, has_charge |-> FALSE]

RationaleOf(dx) ==
    IF dx.source_span # "" THEN "Found in source: " \o dx.source_span
    ELSE IF dx.description # "" THEN dx.description
    ELSE "Extracted from document"

SuggestionOfDiagnosis(dx) ==
    [code |-> dx.code, code_type |-> "ICD-10", description |-> dx.description,
     rationale |-> RationaleOf(dx), confidence |-> dx.confidence,
     source_text |-> dx.source_span, metadata |-> EmptyMetadata]

(***************************************************************************)
(* _llm_suggest_codes: the suggestions of the model, none on any failure.  *)
(***************************************************************************)
LLMDiagnosisOf(d) ==
    [code |-> d.code, code_type |-> "ICD-10", description |-> d.description,
     rationale |-> d.rationale, confidence |-> d.confidence,
     source_text |-> "", metadata |-> EmptyMetadata]

LLMProcedureOf(p) ==
    [code |-> p.code,
     code_type |-> IF Len(p.code) = 5 /\ IsDigits(p.code) THEN "CPT" ELSE "HCPCS",
     description |-> p.description, rationale |-> p.rationale,
     confidence |-> p.confidence, source_text |-> "", metadata |-> EmptyMetadata]

LLMSuggestCodes(response) ==
    IF response.ok
    THEN [diagnoses |-> [i \in 1..Len(response.diagnoses) |->
                            LLMDiagnosisOf(response.diagnoses[i])],
          procedures |-> [i \in 1..Len(response.procedures) |->
                            LLMProcedureOf(response.procedures[i])]]
    ELSE [diagnoses |-> << >>, procedures |-> << >>]

(***************************************************************************)
(* _merge_diagnosis_suggestions                                            *)
(***************************************************************************)
RECURSIVE MergeExistingDiagnoses(_, _, _)
MergeExistingDiagnoses(existing, i, merged_map) ==
    IF i > Len(existing) THEN merged_map
    ELSE
        LET new_sugg == SuggestionOfDiagnosis(existing[i])
            code == new_sugg.code
            next ==
                IF DictHas(merged_map, code)
                THEN LET existing_sugg == DictGet(merged_map, code)
                     IN  IF new_sugg.confidence > existing_sugg.confidence
                         THEN DictSet(merged_map, code, new_sugg)
                         ELSE IF existing_sugg.description = ""
                                 /\ new_sugg.description # ""
                         THEN DictSet(merged_map, code, new_sugg)
                         ELSE merged_map
                ELSE DictSet(merged_map, code, new_sugg)
        IN  MergeExistingDiagnoses(existing, i + 1, next)

UpgradeFromLLM(existing_sugg, suggestion) ==
    IF suggestion.confidence > existing_sugg.confidence
    THEN [existing_sugg EXCEPT
            !.confidence = suggestion.confidence,
            !.description = IF suggestion.description # ""
                            THEN suggestion.description ELSE @,
            !.rationale = IF suggestion.rationale # ""
                          THEN suggestion.rationale ELSE @]
    ELSE IF existing_sugg.description = "" /\ suggestion.description # ""
    THEN [existing_sugg EXCEPT !.description = suggestion.description]
    ELSE existing_sugg

RECURSIVE MergeLLMDiagnoses(_, _, _)
MergeLLMDiagnoses(llm_suggestions, i, merged_map) ==
    IF i > Len(llm_suggestions) THEN merged_map
    ELSE
        LET suggestion == llm_suggestions[i]
            code == suggestion.code
            next ==
                IF DictHas(merged_map, code)
                THEN DictSet(merged_map, code,
                             UpgradeFromLLM(DictGet(merged_map, code), suggestion))
                ELSE IF suggestion.confidence >= LLMThreshold
                THEN DictSet(merged_map, code, suggestion)
                ELSE merged_map
        IN  MergeLLMDiagnoses(llm_suggestions, i + 1, next)

RECURSIVE ExtractedOrderFirst(_, _, _, _)
ExtractedOrderFirst(existing, i, merged_map, merged_list) ==
    IF i > Len(existing) THEN merged_list \o DictValues(merged_map)
    ELSE IF DictHas(merged_map, existing[i].code)
    THEN ExtractedOrderFirst(existing, i + 1,
                             DictPop(merged_map, existing[i].code),
                             Append(merged_list, DictGet(merged_map, existing[i].code)))
    ELSE ExtractedOrderFirst(existing, i + 1, merged_map, merged_list)

MergeDiagnosisSuggestions(existing, llm_suggestions) ==
    LET from_existing == MergeExistingDiagnoses(existing, 1, << >>)
        merged_map == MergeLLMDiagnoses(llm_suggestions, 1, from_existing)
    IN  ExtractedOrderFirst(existing, 1, merged_map, << >>)

(***************************************************************************)
(* _merge_procedure_suggestions                                            *)
(***************************************************************************)
CodeKey(proc) ==
    IF proc.modifier # << >> THEN proc.code \o <<"-">> \o proc.modifier
    ELSE proc.code

SuggestionOfProcedure(proc) ==
    [code |-> CodeKey(proc),
     code_type |-> IF Len(proc.code) = 5 THEN "CPT" ELSE "HCPCS",
     description |-> proc.description,
     rationale |-> "Extracted from document",
     confidence |-> proc.confidence,
     source_text |-> "",
     metadata |-> [has_pointers |-> proc.diagnosis_pointers # << >>,
                   diagnosis_pointers |-> proc.diagnosis_pointers,
                   modifier |-> proc.modifier,
                   has_charge |-> proc.has_charge]]

ExtractedProcedures(existing) ==
    [i \in 1..Len(existing) |-> SuggestionOfProcedure(existing[i])]

SeenCodes(existing) ==
    {existing[i].code : i \in 1..Len(existing)}
        \cup {CodeKey(existing[i]) : i \in 1..Len(existing)}

RECURSIVE FallBackToLLM(_, _, _, _)
FallBackToLLM(llm_suggestions, i, merged, seen_codes) ==
    IF i > Len(llm_suggestions) THEN merged
    ELSE IF llm_suggestions[i].code \notin seen_codes
            /\ llm_suggestions[i].confidence >= LLMThreshold
    THEN FallBackToLLM(llm_suggestions, i + 1,
                       Append(merged, llm_suggestions[i]),
                       seen_codes \cup {llm_suggestions[i].code})
    ELSE FallBackToLLM(llm_suggestions, i + 1, merged, seen_codes)

RECURSIVE DedupByBaseCode(_, _, _, _)
DedupByBaseCode(merged, i, unique, seen) ==
    IF i > Len(merged) THEN unique
    ELSE LET base_code == SplitFirst(merged[i].code)
         IN  IF base_code \notin seen
             THEN DedupByBaseCode(merged, i + 1, Append(unique, merged[i]),
                                  seen \cup {base_code})
             ELSE DedupByBaseCode(merged, i + 1, unique, seen)

\* mutant: the model's suggestions are added to extracted procedures too
MergeProcedureSuggestionsWithLLM(existing, llm_suggestions) ==
    DedupByBaseCode(ExtractedProcedures(existing)
                        \o FallBackToLLM(llm_suggestions, 1, << >>, SeenCodes(existing)),
                    1, << >>, {})

MergeProcedureSuggestions(existing, llm_suggestions) ==
    LET extracted == ExtractedProcedures(existing)
        merged == IF extracted = << >> /\ llm_suggestions # << >>
                  THEN FallBackToLLM(llm_suggestions, 1, << >>, SeenCodes(existing))
                  ELSE extracted
    IN  DedupByBaseCode(merged, 1, << >>, {})

(***************************************************************************)
(* _assign_diagnosis_letters                                               *)
(***************************************************************************)
\* mutant: the cut is one short
Head12OffByOne(diagnoses) ==
    SubSeq(diagnoses, 1, Min(Len(diagnoses), MaxDiagnoses - 1))

Head12(diagnoses) == SubSeq(diagnoses, 1, Min(Len(diagnoses), MaxDiagnoses))

RECURSIVE AssignLettersFrom(_, _, _)
AssignLettersFrom(first, idx, letters_dict) ==
    IF idx > Len(first) THEN letters_dict
    ELSE AssignLettersFrom(first, idx + 1,
                           DictSet(letters_dict, first[idx].code, Letters[idx]))

AssignDiagnosisLetters(diagnoses) ==
    AssignLettersFrom(Head12(diagnoses), 1, << >>)

(***************************************************************************)
(* _map_diagnoses_to_procedures                                            *)
(***************************************************************************)
RECURSIVE EmptyProcLists(_, _, _)
EmptyProcLists(diagnoses, i, map) ==
    IF i > Len(diagnoses) THEN map
    ELSE EmptyProcLists(diagnoses, i + 1, DictSet(map, diagnoses[i].code, << >>))

\* diagnosis_letter_map.get(letter): the code at that letter, << >> for None
DiagnosisAtLetter(diagnoses, letter) ==
    LET first == Head12(diagnoses)
        at == {i \in 1..Len(first) : Letters[i] = letter}
    IN  IF at = {} THEN << >> ELSE first[CHOOSE i \in at : TRUE].code

PointersOf(proc) ==
    IF proc.metadata.has_pointers THEN proc.metadata.diagnosis_pointers ELSE << >>

\* dx_proc_map.setdefault(dx_code, []).append(proc_code)
AppendProc(map, dx_code, proc_code) ==
    DictSet(map, dx_code,
            Append(IF DictHas(map, dx_code) THEN DictGet(map, dx_code) ELSE << >>,
                   proc_code))

RECURSIVE MapByPointers(_, _, _, _, _)
MapByPointers(diagnoses, pointers, j, proc_code, map) ==
    IF j > Len(pointers) THEN map
    ELSE LET dx_code == DiagnosisAtLetter(diagnoses, pointers[j])
         IN  MapByPointers(diagnoses, pointers, j + 1, proc_code,
                           IF dx_code # << >>
                           THEN AppendProc(map, dx_code, proc_code) ELSE map)

\* mutant: the procedure is mapped to every diagnosis
RECURSIVE MapToEvery(_, _, _)
MapToEvery(diagnoses, proc_code, map) ==
    IF diagnoses = << >> THEN map
    ELSE MapToEvery(Tail(diagnoses), proc_code,
                    AppendProc(map, Head(diagnoses).code, proc_code))

MapToPrimary(diagnoses, proc_code, map) ==
    IF diagnoses # << >> THEN AppendProc(map, diagnoses[1].code, proc_code)
    ELSE map

MapOneProcedure(diagnoses, proc, map) ==
    IF PointersOf(proc) # << >>
    THEN MapByPointers(diagnoses, PointersOf(proc), 1, proc.code, map)
    ELSE MapToPrimary(diagnoses, proc.code, map)

RECURSIVE MapProceduresFrom(_, _, _, _)
MapProceduresFrom(diagnoses, procedures, i, map) ==
    IF i > Len(procedures) THEN map
    ELSE MapProceduresFrom(diagnoses, procedures, i + 1,
                           MapOneProcedure(diagnoses, procedures[i], map))

MapDiagnosesToProcedures(diagnoses, procedures) ==
    MapProceduresFrom(diagnoses, procedures, 1,
                      EmptyProcLists(diagnoses, 1, << >>))

(***************************************************************************)
(* _update_diagnosis_pointers                                              *)
(***************************************************************************)
InProcDxMap(map, proc_code) ==
    \E i \in 1..Len(map) : proc_code \in Range(map[i].v)

\* proc_dx_map[proc_code]: the letters appended for proc_code, in map order
RECURSIVE ProcDxLetters(_, _, _, _)
ProcDxLetters(map, letters_dict, proc_code, i) ==
    IF i > Len(map) THEN << >>
    ELSE LET dx_code == map[i].k
             times == Cardinality({j \in 1..Len(map[i].v) : map[i].v[j] = proc_code})
             here == IF DictHas(letters_dict, dx_code)
                     THEN [n \in 1..times |-> DictGet(letters_dict, dx_code)]
                     ELSE << >>
         IN  here \o ProcDxLetters(map, letters_dict, proc_code, i + 1)

\* sorted(set(letters)) for letters of A..L
SortedSet(letters) ==
    LET present == {i \in 1..Len(Letters) : Letters[i] \in Range(letters)}
        rank(i) == Cardinality({j \in present : j <= i})
    IN  [n \in 1..Cardinality(present) |->
            Letters[CHOOSE i \in present : rank(i) = n]]

\* mutant: the letters are added to the pointers already there
BackfilledPointersAdded(proc, map, letters_dict) ==
    proc.metadata.diagnosis_pointers \o ProcDxLetters(map, letters_dict, proc.code, 1)

BackfilledPointers(proc, map, letters_dict) ==
    SortedSet(ProcDxLetters(map, letters_dict, proc.code, 1))

UpdateOneProcedure(proc, map, letters_dict) ==
    IF InProcDxMap(map, proc.code)
    THEN [proc EXCEPT !.metadata.has_pointers = TRUE,
                      !.metadata.diagnosis_pointers =
                          BackfilledPointers(proc, map, letters_dict)]
    ELSE proc

UpdateDiagnosisPointers(procedures, map, letters_dict) ==
    [i \in 1..Len(procedures) |-> UpdateOneProcedure(procedures[i], map, letters_dict)]

(***************************************************************************)
(* _detect_mismatches                                                      *)
(***************************************************************************)
Mismatch(type, severity, code) ==
    [mismatch_type |-> type, severity |-> severity, affected_codes |-> <<code>>]

RECURSIVE MissingDiagnosis(_, _, _)
MissingDiagnosis(procedures, map, i) ==
    IF i > Len(procedures) THEN << >>
    ELSE (IF InProcDxMap(map, procedures[i].code) THEN << >>
          ELSE <<Mismatch("missing_diagnosis", "warning", procedures[i].code)>>)
         \o MissingDiagnosis(procedures, map, i + 1)

RECURSIVE DiagnosisWithoutProcedure(_, _, _)
DiagnosisWithoutProcedure(diagnoses, map, i) ==
    IF i > Len(diagnoses) THEN << >>
    ELSE (IF ~DictHas(map, diagnoses[i].code)
             \/ DictGet(map, diagnoses[i].code) = << >>
          THEN <<Mismatch("diagnosis_without_procedure", "info", diagnoses[i].code)>>
          ELSE << >>)
         \o DiagnosisWithoutProcedure(diagnoses, map, i + 1)

RECURSIVE DuplicateCode(_, _)
DuplicateCode(diagnoses, i) ==
    IF i > Len(diagnoses) THEN << >>
    ELSE (IF \E j \in 1..(i - 1) : diagnoses[j].code = diagnoses[i].code
          THEN <<Mismatch("duplicate_code", "error", diagnoses[i].code)>>
          ELSE << >>)
         \o DuplicateCode(diagnoses, i + 1)

\* mutant: repeated diagnosis codes are not reported
DetectMismatchesNoDuplicates(diagnoses, procedures, map) ==
    MissingDiagnosis(procedures, map, 1)
        \o DiagnosisWithoutProcedure(diagnoses, map, 1)

DetectMismatches(diagnoses, procedures, map) ==
    MissingDiagnosis(procedures, map, 1)
        \o DiagnosisWithoutProcedure(diagnoses, map, 1)
        \o DuplicateCode(diagnoses, 1)

(***************************************************************************)
(* _calculate_overall_confidence, in exact arithmetic: the score is the    *)
(* fraction num/den with den = 1000 * max(1, #diagnoses) * max(1, #procs). *)
(***************************************************************************)
RECURSIVE SumConfidence(_, _)
SumConfidence(items, i) ==
    IF i > Len(items) THEN 0 ELSE items[i].confidence + SumConfidence(items, i + 1)

CountSeverity(found, severity) ==
    Cardinality({i \in 1..Len(found) : found[i].severity = severity})

\* penalty in hundredths: 0.15 per error, 0.05 per warning, capped at 0.4
Penalty(found) ==
    Min(15 * CountSeverity(found, "error") + 5 * CountSeverity(found, "warning"), 40)

\* mutant: the score is not clamped
CalculateOverallConfidenceUnclamped(diagnoses, procedures, found, extraction) ==
    IF diagnoses = << >> /\ procedures = << >> THEN [num |-> 0, den |-> 1]
    ELSE
        LET nd == Max(1, Len(diagnoses))
            np == Max(1, Len(procedures))
            den == 100 * ConfidenceScale * nd * np
            weighted == 6 * SumConfidence(diagnoses, 1) * np
                            + 3 * SumConfidence(procedures, 1) * nd
            base_score == IF extraction # NoConfidence
                          THEN 9 * weighted + 10 * extraction * nd * np
                          ELSE 10 * weighted
            penalty == Penalty(found) * ConfidenceScale * nd * np
        IN  [num |-> base_score - penalty, den |-> den]

CalculateOverallConfidence(diagnoses, procedures, found, extraction) ==
    IF diagnoses = << >> /\ procedures = << >> THEN [num |-> 0, den |-> 1]
    ELSE
        LET nd == Max(1, Len(diagnoses))
            np == Max(1, Len(procedures))
            den == 100 * ConfidenceScale * nd * np
            \* 100 * nd * np * (0.6 * dx_conf + 0.3 * proc_conf)
            weighted == 6 * SumConfidence(diagnoses, 1) * np
                            + 3 * SumConfidence(procedures, 1) * nd
            base_score == IF extraction # NoConfidence
                          THEN 9 * weighted + 10 * extraction * nd * np
                          ELSE 10 * weighted
            penalty == Penalty(found) * ConfidenceScale * nd * np
        IN  [num |-> Max(0, Min(den, base_score - penalty)), den |-> den]

(***************************************************************************)
(* Inputs of suggest_codes.                                                *)
(***************************************************************************)
Alphabet == <<"A", "B", "C", "D", "E", "F", "G", "H", "I", "J", "K", "L", "M",
              "N", "O", "P", "Q", "R", "S", "T", "U", "V", "W", "X", "Y", "Z">>
LastDigits == <<"3", "4", "5", "1", "2", "6", "7", "8", "9">>

RECURSIVE Join(_)
Join(chars) == IF chars = << >> THEN "" ELSE Head(chars) \o Join(Tail(chars))

\* J20.9, I10, C00, D00, ...
DxCode(i) ==
    IF i = 1 THEN <<"J", "2", "0", ".", "9">>
    ELSE IF i = 2 THEN <<"I", "1", "0">>
    ELSE <<Alphabet[i], "0", "0">>

\* 99213, 99214, 99215, 99211, ...
ProcCode(i) == <<"9", "9", "2", "1", LastDigits[i]>>

DiagnosisCode(code, description, confidence, source_span) ==
    [code |-> code, description |-> description, confidence |-> confidence,
     source_span |-> source_span]

ProcedureCode(code, modifier, confidence, diagnosis_pointers) ==
    [code |-> code, modifier |-> modifier, description |-> "",
     confidence |-> confidence, diagnosis_pointers |-> diagnosis_pointers,
     has_charge |-> FALSE]

\* what _extract_diagnosis_codes and _extract_procedure_codes build
PatternDiagnosis(i) == DiagnosisCode(DxCode(i), "", 7, Join(DxCode(i)))
PatternProcedure(i) == ProcedureCode(ProcCode(i), << >>, 7, << >>)

DiagnosisPool ==
    {PatternDiagnosis(1), PatternDiagnosis(2),
     DiagnosisCode(DxCode(2), "", 9, ""),
     DiagnosisCode(DxCode(2), "Acute bronchitis", 7, "")}

ProcedurePool ==
    {PatternProcedure(1),
     ProcedureCode(ProcCode(1), <<"2", "5">>, 7, << >>),
     ProcedureCode(ProcCode(1), << >>, 9, <<"B">>),
     ProcedureCode(ProcCode(2), << >>, 0, << >>),
     ProcedureCode(ProcCode(2), << >>, 7, <<"Z">>),
     ProcedureCode(ProcCode(2), << >>, 7, <<"A", "B">>)}

SeqsUpTo(S, n) == UNION {[1..m -> S] : m \in 0..n}

ShortDiagnoses == SeqsUpTo(DiagnosisPool, MaxShortDx)
ShortProcedures == SeqsUpTo(ProcedurePool, MaxShortProc)

\* n pattern-extracted diagnoses; the one at position dup repeats the first code
LongDiagnoses ==
    {[i \in 1..n |-> PatternDiagnosis(IF i = dup THEN 1 ELSE i)] :
        n \in (MaxShortDx + 1)..MaxDx, dup \in {0} \cup (2..MaxDx)}
LongProcedures ==
    {[i \in 1..n |-> PatternProcedure(i)] : n \in (MaxShortProc + 1)..MaxProc}

LLMItem(code, description, confidence) ==
    [code |-> code, description |-> description, rationale |-> "Model rationale",
     confidence |-> confidence]
LLMAnswer(diagnoses, procedures) ==
    [ok |-> TRUE, diagnoses |-> diagnoses, procedures |-> procedures]
LLMFailure == [ok |-> FALSE, diagnoses |-> << >>, procedures |-> << >>]
LLMResponses ==
    {LLMFailure,
     LLMAnswer(<<LLMItem(DxCode(2), "Hypertension", 9)>>,
               <<LLMItem(ProcCode(3), "Office visit", 9)>>),
     LLMAnswer(<<LLMItem(DxCode(3), "", 5)>>,
               <<LLMItem(ProcCode(3), "Office visit", 5)>>),
     LLMAnswer(<<LLMItem(DxCode(3), "Neoplasm", 8), LLMItem(DxCode(1), "", 9)>>,
               <<LLMItem(ProcCode(3), "", 5), LLMItem(ProcCode(1), "", 6),
                 LLMItem(ProcCode(1) \o <<"-", "2", "5">>, "", 9)>>)}

ExtractionConfidences == {NoConfidence, 0, ConfidenceScale}

NoResult == [num |-> 0, den |-> 1]

(***************************************************************************)
(* Claim records (src/cms1500/schema.py).  In a claim a string is a        *)
(* sequence of characters and None is the one-element sequence None; the   *)
(* fields modelled are those the Validator reads or the schema constrains  *)
(* (addresses, cities, zips, phones and signatures are free text that no   *)
(* rule reads).  Money is in whole dollars.                                *)
(***************************************************************************)
None == <<"None">>
Truthy(s) == s # None /\ s # << >>
Omitted == 0 - 1             \* total_charge not passed to the constructor

PointerLetters == Range(Letters)

\* re.match(r'^...$', s): '$' also matches before one final newline
BeforeFinalNewline(s) ==
    IF Len(s) > 0 /\ s[Len(s)] = "\n" THEN SubSeq(s, 1, Len(s) - 1) ELSE s

TenDigits(s) == Len(s) = 10 /\ \A i \in 1..10 : s[i] \in Digits

\* Field(pattern="^\\d{10}$"), matched on the whole string
SchemaNPI(s) == s = None \/ TenDigits(s)
\* re.match(r'^\d{10}$', s)
MatchNPI(s) == TenDigits(BeforeFinalNewline(s))

\* Field(pattern="^[MFU]$")
SchemaSex(s) == Len(s) = 1 /\ s[1] \in {"M", "F", "U"}

MaxLen(s, n) == s = None \/ Len(s) <= n

(***************************************************************************)
(* ServiceLineInfo(...)                                                    *)
(***************************************************************************)
ValidPointerChars(v) == \A i \in 1..Len(v) : v[i] \in PointerLetters

ServiceLineAccepted(line) ==
    /\ line.date_from # None
    /\ line.place_of_service # None /\ Len(line.place_of_service) <= 2
    /\ line.cpt_hcpcs # None
    /\ MaxLen(line.modifier1, 2)
    /\ line.diagnosis_pointer # None
    /\ ValidPointerChars(line.diagnosis_pointer)
    /\ line.charges >= 0
    /\ line.days_or_units >= 1

ServiceLineInfo(date_from, cpt_hcpcs, modifier1, diagnosis_pointer, charges, units) ==
    [date_from |-> date_from, place_of_service |-> <<"1", "1">>,
     cpt_hcpcs |-> cpt_hcpcs, modifier1 |-> modifier1,
     diagnosis_pointer |-> diagnosis_pointer, charges |-> charges,
     days_or_units |-> units, rendering_provider_id |-> None]

RECURSIVE LineTotal(_)
LineTotal(lines) ==
    IF lines = << >> THEN 0
    ELSE Head(lines).charges * Head(lines).days_or_units + LineTotal(Tail(lines))

(***************************************************************************)
(* CMS1500Claim: construction from keyword arguments                       *)
(***************************************************************************)
MaxServiceLines == 6

RequiredStrings(data) ==
    /\ data.insured_id_number # None
    /\ data.patient_last_name # None
    /\ data.patient_first_name # None
    /\ data.patient_dob # None
    /\ data.patient_sex # None /\ SchemaSex(data.patient_sex)

ConstrainedStrings(data) ==
    /\ MaxLen(data.patient_middle_initial, 1)
    /\ MaxLen(data.patient_state, 2)
    /\ MaxLen(data.insured_state, 2)
    /\ MaxLen(data.auto_accident_state, 2)
    /\ MaxLen(data.service_facility_state, 2)
    /\ MaxLen(data.billing_provider_state, 2)
    /\ SchemaNPI(data.referring_provider_npi)
    /\ SchemaNPI(data.service_facility_npi)
    /\ SchemaNPI(data.billing_provider_npi)

\* validate_service_lines runs only on a value that was passed
ServiceLinesAccepted(data) ==
    data.lines_given =>
        /\ Len(data.service_lines) <= MaxServiceLines
        /\ data.service_lines # << >>

\* calculate_total_charge runs only on a value that was passed
TotalCharge(data) ==
    IF data.total_charge = Omitted THEN 0
    ELSE IF data.service_lines # << >>
    THEN (IF data.total_charge > 0 THEN data.total_charge
          ELSE LineTotal(data.service_lines))
    ELSE data.total_charge

ClaimAccepted(data) ==
    /\ RequiredStrings(data)
    /\ ConstrainedStrings(data)
    /\ data.icd_indicator \in {"0", "9"}
    /\ \A i \in 1..Len(data.service_lines) : ServiceLineAccepted(data.service_lines[i])
    /\ ServiceLinesAccepted(data)
    /\ data.total_charge = Omitted \/ data.total_charge >= 0

ClaimFields ==
    {"insured_id_number", "patient_last_name", "patient_first_name",
     "patient_middle_initial", "patient_dob", "patient_sex", "insured_name",
     "patient_state", "patient_relationship_self", "patient_relationship_spouse",
     "patient_relationship_child", "patient_relationship_other", "insured_state",
     "condition_related_auto_accident", "auto_accident_state",
     "referring_provider_name", "referring_provider_npi", "icd_indicator",
     "diagnoses", "prior_authorization_number", "service_lines",
     "federal_tax_id", "tax_id_type_ssn", "tax_id_type_ein", "total_charge",
     "service_facility_name", "service_facility_state", "service_facility_npi",
     "billing_provider_name", "billing_provider_state", "billing_provider_npi"}

\* the claim the constructor returns when it accepts the data
ClaimOf(data) ==
    [f \in ClaimFields |->
        IF f = "total_charge" THEN TotalCharge(data) ELSE data[f]]

\* every field at its default, lines_given and total_charge saying what was passed
NoDiagnoses == [i \in 1..12 |-> None]
ClaimDefaults ==
    [insured_id_number |-> None, patient_last_name |-> None,
     patient_first_name |-> None, patient_middle_initial |-> None,
     patient_dob |-> None, patient_sex |-> None, insured_name |-> None,
     patient_state |-> None,
     patient_relationship_self |-> FALSE, patient_relationship_spouse |-> FALSE,
     patient_relationship_child |-> FALSE, patient_relationship_other |-> FALSE,
     insured_state |-> None,
     condition_related_auto_accident |-> FALSE, auto_accident_state |-> None,
     referring_provider_name |-> None, referring_provider_npi |-> None,
     icd_indicator |-> "unset", diagnoses |-> NoDiagnoses,
     prior_authorization_number |-> None,
     lines_given |-> FALSE, service_lines |-> << >>,
     federal_tax_id |-> None, tax_id_type_ssn |-> FALSE, tax_id_type_ein |-> FALSE,
     total_charge |-> Omitted,
     service_facility_name |-> None, service_facility_state |-> None,
     service_facility_npi |-> None,
     billing_provider_name |-> None, billing_provider_state |-> None,
     billing_provider_npi |-> None]

\* claim.get_diagnosis_by_letter and claim.get_diagnoses_list
DiagnosisByLetter(claim, letter) ==
    LET at == {i \in 1..12 : Letters[i] = letter}
    IN  IF at = {} THEN None ELSE claim.diagnoses[CHOOSE i \in at : TRUE]

RECURSIVE DiagnosesFrom(_, _)
DiagnosesFrom(claim, i) ==
    IF i > 12 THEN << >>
    ELSE (IF Truthy(claim.diagnoses[i]) THEN <<claim.diagnoses[i]>> ELSE << >>)
         \o DiagnosesFrom(claim, i + 1)

DiagnosesList(claim) == DiagnosesFrom(claim, 1)

(***************************************************************************)
(* ValidationResult and the Validator (src/cms1500/rules.py).              *)
(***************************************************************************)
ValidationMessage(field, severity, rule_id) ==
    [field |-> field, severity |-> severity, rule_id |-> rule_id]

FreshResult ==
    [valid |-> TRUE, messages |-> << >>, warnings_count |-> 0,
     errors_count |-> 0, info_count |-> 0]

\* mutant: valid follows the severity of the last message
AddMessageLastWins(res, msg) ==
    [res EXCEPT !.messages = Append(@, msg),
                !.errors_count = IF msg.severity = "error" THEN @ + 1 ELSE @,
                !.valid = msg.severity # "error",
                !.warnings_count = IF msg.severity = "warning" THEN @ + 1 ELSE @,
                !.info_count = IF msg.severity \notin {"error", "warning"} THEN @ + 1 ELSE @]

AddMessage(res, msg) ==
    IF msg.severity = "error"
    THEN [res EXCEPT !.messages = Append(@, msg), !.errors_count = @ + 1,
                     !.valid = FALSE]
    ELSE IF msg.severity = "warning"
    THEN [res EXCEPT !.messages = Append(@, msg), !.warnings_count = @ + 1]
    ELSE [res EXCEPT !.messages = Append(@, msg), !.info_count = @ + 1]

RECURSIVE AddMessages(_, _)
AddMessages(res, msgs) ==
    IF msgs = << >> THEN res
    ELSE AddMessages(AddMessage(res, Head(msgs)), Tail(msgs))

When(cond, msg) == IF cond THEN <<msg>> ELSE << >>

UpperCase == Range(Alphabet)
Whitespace == {" ", "\t", "\n", "\r", "\f"}
DigitsAt(s, positions) == \A i \in positions : s[i] \in Digits

\* _validate_date_format
DateShape(t) ==
    /\ Len(t) = 10
    /\ DigitsAt(t, {1, 2, 4, 5, 7, 8, 9, 10})
    /\ \/ t[3] \in Whitespace /\ t[6] \in Whitespace
       \/ t[3] = "/" /\ t[6] = "/"
       \/ t[3] = "-" /\ t[6] = "-"

ValidateDateFormat(date_str) == Truthy(date_str) /\ DateShape(BeforeFinalNewline(date_str))

\* _validate_icd10_format
ICD10Shape(t) ==
    /\ Len(t) >= 3
    /\ t[1] \in UpperCase \ {"U"}
    /\ DigitsAt(t, {2, 3})
    /\ \/ Len(t) = 3
       \/ Len(t) \in 5..8 /\ t[4] = "." /\ DigitsAt(t, 5..Len(t))

ValidateICD10Format(code) == Truthy(code) /\ ICD10Shape(BeforeFinalNewline(code))

\* _validate_cpt_hcpcs
CptShape(t) ==
    /\ Len(t) = 5
    /\ DigitsAt(t, 2..5)
    /\ t[1] \in Digits \cup UpperCase

ValidateCptHcpcs(code) == Truthy(code) /\ CptShape(BeforeFinalNewline(code))

\* re.match(r'^\d{2}$', s) and re.match(r'^\d{9}$', s)
MatchDigits(s, n) ==
    LET t == BeforeFinalNewline(s) IN Len(t) = n /\ DigitsAt(t, 1..n)

\* str.replace('-', '')
RECURSIVE WithoutDashes(_)
WithoutDashes(s) ==
    IF s = << >> THEN << >>
    ELSE (IF Head(s) = "-" THEN << >> ELSE <<Head(s)>>) \o WithoutDashes(Tail(s))

ValidateRequiredFields(claim) ==
    When(~Truthy(claim.insured_id_number), ValidationMessage("1a", "error", "NUCC-1a-REQ"))
    \o When(~Truthy(claim.patient_last_name), ValidationMessage("2", "error", "NUCC-2-REQ"))
    \o When(~Truthy(claim.patient_first_name), ValidationMessage("2", "error", "NUCC-2-REQ"))
    \o When(~Truthy(claim.patient_dob), ValidationMessage("3", "error", "NUCC-3-REQ"))
    \o When(~Truthy(claim.patient_sex), ValidationMessage("3", "error", "NUCC-3-REQ"))
    \o When(claim.icd_indicator = "", ValidationMessage("21", "error", "NUCC-21-REQ"))
    \o When(~Truthy(claim.billing_provider_npi),
            ValidationMessage("33a", "error", "NUCC-33a-REQ"))

ValidateItem1a(claim) ==
    When(Truthy(claim.insured_id_number) /\ Len(claim.insured_id_number) > 29,
         ValidationMessage("1a", "error", "NUCC-1a-LEN"))

ValidateItem2_3(claim) ==
    When(Len(claim.patient_last_name) > 35, ValidationMessage("2", "error", "NUCC-2-LEN"))
    \o When(Truthy(claim.patient_dob) /\ ~ValidateDateFormat(claim.patient_dob),
            ValidationMessage("3", "error", "NUCC-3-FMT"))
    \o When(claim.patient_sex \notin {<<"M">>, <<"F">>, <<"U">>},
            ValidationMessage("3", "error", "NUCC-3-SEX"))

Relationships(claim) ==
    {f \in {"patient_relationship_self", "patient_relationship_spouse",
            "patient_relationship_child", "patient_relationship_other"} : claim[f]}

ValidateItem6(claim) ==
    When(Relationships(claim) = {}, ValidationMessage("6", "error", "NUCC-6-REQ"))
    \o When(Cardinality(Relationships(claim)) > 1,
            ValidationMessage("6", "error", "NUCC-6-EXCL"))

ValidateItem10(claim) ==
    When(claim.condition_related_auto_accident /\ ~Truthy(claim.auto_accident_state),
         ValidationMessage("10b", "error", "NUCC-10b-STATE"))

ValidateItem11(claim) ==
    When(~claim.patient_relationship_self /\ ~Truthy(claim.insured_name),
         ValidationMessage("4", "warning", "NUCC-4-REC"))

ValidateItem17(claim) ==
    When(Truthy(claim.referring_provider_name) /\ ~Truthy(claim.referring_provider_npi),
         ValidationMessage("17b", "warning", "NUCC-17b-REC"))
    \o When(Truthy(claim.referring_provider_npi) /\ ~MatchNPI(claim.referring_provider_npi),
            ValidationMessage("17b", "error", "NUCC-17b-FMT"))

IndexText == <<"1", "2", "3", "4", "5", "6", "7", "8", "9">>
LineField(idx, item) == "24." \o IndexText[idx] \o item
DiagnosisField(idx) == "21" \o Letters[idx]

RECURSIVE ICD10Findings(_, _)
ICD10Findings(diagnoses, idx) ==
    IF idx > Len(diagnoses) THEN << >>
    ELSE When(~ValidateICD10Format(diagnoses[idx]),
              ValidationMessage(DiagnosisField(idx), "error", "CMS-21-ICD10-FMT"))
         \o ICD10Findings(diagnoses, idx + 1)

ValidateItem21(claim) ==
    When(claim.icd_indicator # "0", ValidationMessage("21", "warning", "CMS-21-ICD10"))
    \o When(DiagnosesList(claim) = << >>, ValidationMessage("21", "error", "NUCC-21-REQ"))
    \o ICD10Findings(DiagnosesList(claim), 1)

ValidateItem23(claim) ==
    When(Truthy(claim.prior_authorization_number)
             /\ Len(claim.prior_authorization_number) > 30,
         ValidationMessage("23", "warning", "NUCC-23-LEN"))

LineFindings(line, idx) ==
    When(~ValidateDateFormat(line.date_from),
         ValidationMessage(LineField(idx, "A"), "error", "NUCC-24A-FMT"))
    \o When(~MatchDigits(line.place_of_service, 2),
            ValidationMessage(LineField(idx, "B"), "error", "NUCC-24B-FMT"))
    \o When(~ValidateCptHcpcs(line.cpt_hcpcs),
            ValidationMessage(LineField(idx, "D"), "error", "NUCC-24D-FMT"))
    \o When(line.diagnosis_pointer = << >>,
            ValidationMessage(LineField(idx, "E"), "error", "NUCC-24E-REQ"))
    \o When(Truthy(line.rendering_provider_id) /\ ~MatchNPI(line.rendering_provider_id),
            ValidationMessage(LineField(idx, "J"), "warning", "NUCC-24J-NPI"))

RECURSIVE AllLineFindings(_, _)
AllLineFindings(lines, idx) ==
    IF idx > Len(lines) THEN << >>
    ELSE LineFindings(lines[idx], idx) \o AllLineFindings(lines, idx + 1)

ValidateItem24(claim) ==
    IF claim.service_lines = << >>
    THEN <<ValidationMessage("24", "error", "NUCC-24-REQ")>>
    ELSE AllLineFindings(claim.service_lines, 1)

ValidateItem25(claim) ==
    IF Truthy(claim.federal_tax_id)
    THEN When(~MatchDigits(WithoutDashes(claim.federal_tax_id), 9),
              ValidationMessage("25", "error", "NUCC-25-FMT"))
         \o When(~(claim.tax_id_type_ein \/ claim.tax_id_type_ssn),
                 ValidationMessage("25", "error", "NUCC-25-TYPE"))
    ELSE << >>

\* whole dollars: a difference above 0.01 is any difference
ValidateItem28_29(claim) ==
    When(claim.total_charge # LineTotal(claim.service_lines),
         ValidationMessage("28", "warning", "NUCC-28-CALC"))

ValidateItem32(claim) ==
    When(Truthy(claim.service_facility_name) /\ ~Truthy(claim.service_facility_npi),
         ValidationMessage("32a", "error", "NUCC-32a-REQ"))
    \o When(Truthy(claim.service_facility_npi) /\ ~MatchNPI(claim.service_facility_npi),
            ValidationMessage("32a", "error", "NUCC-32a-FMT"))

ValidateItem33(claim) ==
    (IF ~Truthy(claim.billing_provider_npi)
     THEN <<ValidationMessage("33a", "error", "NUCC-33a-REQ")>>
     ELSE When(~MatchNPI(claim.billing_provider_npi),
               ValidationMessage("33a", "error", "NUCC-33a-FMT")))
    \o When(~Truthy(claim.billing_provider_name),
            ValidationMessage("33", "warning", "NUCC-33-NAME"))

ValidLetters(claim) == {l \in PointerLetters : Truthy(DiagnosisByLetter(claim, l))}

RECURSIVE PointerFindings(_, _, _, _)
PointerFindings(pointer, j, idx, valid_letters) ==
    IF j > Len(pointer) THEN << >>
    ELSE When(pointer[j] \notin valid_letters,
              ValidationMessage(LineField(idx, "E"), "error", "CMS-24E-REF"))
         \o PointerFindings(pointer, j + 1, idx, valid_letters)

RECURSIVE ValidateDiagnosisPointersFrom(_, _)
ValidateDiagnosisPointersFrom(claim, idx) ==
    IF idx > Len(claim.service_lines) THEN << >>
    ELSE PointerFindings(claim.service_lines[idx].diagnosis_pointer, 1, idx,
                         ValidLetters(claim))
         \o ValidateDiagnosisPointersFrom(claim, idx + 1)

ValidateDiagnosisPointers(claim) == ValidateDiagnosisPointersFrom(claim, 1)

\* _validate_date_logic adds nothing
ValidateDateLogic(claim) == << >>

Findings(claim) ==
    ValidateRequiredFields(claim)
    \o ValidateItem1a(claim) \o ValidateItem2_3(claim) \o ValidateItem6(claim)
    \o ValidateItem10(claim) \o ValidateItem11(claim) \o ValidateItem17(claim)
    \o ValidateItem21(claim) \o ValidateItem23(claim) \o ValidateItem24(claim)
    \o ValidateItem25(claim) \o ValidateItem28_29(claim) \o ValidateItem32(claim)
    \o ValidateItem33(claim)
    \o ValidateDiagnosisPointers(claim) \o ValidateDateLogic(claim)

Validate(claim) == AddMessages(FreshResult, Findings(claim))

(***************************************************************************)
(* Pattern extraction (src/core/extraction.py).  A document is described   *)
(* by what the regular expressions of the extractor capture in its text:   *)
(* None where an expression does not match.                                *)
(***************************************************************************)
DigitChars == <<"0", "1", "2", "3", "4", "5", "6", "7", "8", "9">>
LowerAlphabet == <<"a", "b", "c", "d", "e", "f", "g", "h", "i", "j", "k", "l", "m",
                   "n", "o", "p", "q", "r", "s", "t", "u", "v", "w", "x", "y", "z">>

DigitValue(c) == (CHOOSE i \in 1..10 : DigitChars[i] = c) - 1

RECURSIVE NumberOf(_)
NumberOf(s) ==
    IF s = << >> THEN 0
    ELSE 10 * NumberOf(SubSeq(s, 1, Len(s) - 1)) + DigitValue(s[Len(s)])

Pad2(n) == <<DigitChars[((n \div 10) % 10) + 1], DigitChars[(n % 10) + 1]>>
Pad4(n) == Pad2(n \div 100) \o Pad2(n % 100)

\* str.upper and str.lower, one character
UpperChar(c) ==
    IF \E i \in 1..26 : LowerAlphabet[i] = c
    THEN Alphabet[CHOOSE i \in 1..26 : LowerAlphabet[i] = c] ELSE c
LowerChar(c) ==
    IF \E i \in 1..26 : Alphabet[i] = c
    THEN LowerAlphabet[CHOOSE i \in 1..26 : Alphabet[i] = c] ELSE c
Upper(s) == [i \in 1..Len(s) |-> UpperChar(s[i])]
Lower(s) == [i \in 1..Len(s) |-> LowerChar(s[i])]
Capitalize(s) == [i \in 1..Len(s) |-> IF i = 1 THEN UpperChar(s[i]) ELSE LowerChar(s[i])]

\* a or b
Either(a, b) == IF Truthy(a) THEN a ELSE b

IsLeap(year) == year % 4 = 0 /\ (year % 100 # 0 \/ year % 400 = 0)
DaysInMonth(month, year) ==
    IF month = 2 THEN (IF IsLeap(year) THEN 29 ELSE 28)
    ELSE IF month \in {4, 6, 9, 11} THEN 30 ELSE 31

SeparatorsAt(s) == {i \in 1..Len(s) : s[i] \in {"/", "-"}}

\* _normalize_date on a capture of \d{1,2}[/-]\d{1,2}[/-]\d{2,4}: the formats
\* %m/%d/%Y, %m-%d-%Y, %m/%d/%y, %m-%d-%y in turn, the text itself when none parses
NormalizeDate(date_str) ==
    LET p1 == CHOOSE i \in SeparatorsAt(date_str) : \A j \in SeparatorsAt(date_str) : i <= j
        p2 == CHOOSE i \in SeparatorsAt(date_str) : \A j \in SeparatorsAt(date_str) : i >= j
        month == NumberOf(SubSeq(date_str, 1, p1 - 1))
        day == NumberOf(SubSeq(date_str, p1 + 1, p2 - 1))
        digits == SubSeq(date_str, p2 + 1, Len(date_str))
        year == IF Len(digits) = 4 THEN NumberOf(digits)
                ELSE IF NumberOf(digits) <= 68 THEN 2000 + NumberOf(digits)
                ELSE 1900 + NumberOf(digits)
        parses == /\ date_str[p1] = date_str[p2]
                  /\ Len(digits) \in {2, 4}
                  /\ year >= 1
                  /\ month \in 1..12
                  /\ day \in 1..DaysInMonth(month, year)
    IN  IF parses THEN Pad4(year) \o <<"-">> \o Pad2(month) \o <<"-">> \o Pad2(day)
        ELSE date_str

\* _extract_patient_info
ExtractPatientInfo(doc) ==
    [first_name |-> IF doc.name # << >> THEN doc.name[1] ELSE None,
     last_name |-> IF doc.name # << >> THEN doc.name[2] ELSE None,
     middle_name |-> IF Len(doc.name) = 3 THEN doc.name[3] ELSE None,
     dob |-> IF doc.dob # None THEN NormalizeDate(doc.dob) ELSE None,
     sex |-> IF doc.sex = None THEN None
             ELSE IF Upper(doc.sex)[1] = "M" THEN <<"M">> ELSE <<"F">>,
     state |-> None]

\* _extract_insurance_info
ExtractInsuranceInfo(doc) ==
    [insurance_name |-> doc.insurance_name,
     policy_number |-> doc.policy_number,
     subscriber_name |-> None,
     subscriber_relationship |->
         IF doc.relationship # None THEN Capitalize(doc.relationship) ELSE None]

\* _extract_provider_info
ExtractProviderInfo(doc) ==
    [provider_name |-> None, provider_npi |-> doc.provider_npi,
     facility_name |-> None, facility_npi |-> doc.facility_npi,
     facility_state |-> None, tax_id |-> doc.tax_id]

\* _extract_diagnosis_codes and _extract_procedure_codes
ExtractDiagnosisCodes(doc) ==
    [i \in 1..Len(doc.icd) |-> DiagnosisCode(doc.icd[i], "", 7, Join(doc.icd[i]))]
ExtractProcedureCodes(doc) ==
    [i \in 1..Len(doc.cpt) |-> ProcedureCode(doc.cpt[i].code, doc.cpt[i].modifier, 7, << >>)]

\* mutant: the model's value replaces a value the patterns found
MergeInfoModelWins(base, llm_data) ==
    [f \in DOMAIN base |-> IF llm_data[f] # None THEN llm_data[f] ELSE base[f]]

\* _merge_patient_info, _merge_insurance_info, _merge_provider_info: a field
\* the patterns left empty takes the model's value, set without validation
MergeInfo(base, llm_data) ==
    [f \in DOMAIN base |->
        IF ~Truthy(base[f]) /\ llm_data[f] # None THEN llm_data[f] ELSE base[f]]

\* DiagnosisCode(**item) and ProcedureCode(**item) for an item of the model's answer
CodeItemAccepted(item) == item.code # None /\ item.confidence \in 0..ConfidenceScale
LLMDiagnosisCode(item) == DiagnosisCode(item.code, item.description, item.confidence, "")
LLMProcedureCode(item) == ProcedureCode(item.code, << >>, item.confidence, << >>)

\* _calculate_confidence, in thirtieths
ConfidenceDen == 30
FilledFields(info, fields) == Cardinality({f \in fields : Truthy(info[f])})
CalculateConfidence(patient, insurance, provider, diagnoses, procedures) ==
    LET filled_critical == FilledFields(patient, {"first_name", "last_name", "dob"})
                           + FilledFields(insurance, {"insurance_name", "policy_number"})
                           + FilledFields(provider, {"provider_npi"})
        code_score == Min(6 * (Len(diagnoses) + Len(procedures)), 6)
    IN  Min(5 * filled_critical + code_score, ConfidenceDen)

\* `field in llm_data` raises TypeError when llm_data is a JSON number; it is
\* evaluated at the first field the patterns left empty
MergeRaises(base, llm_result, key) ==
    key \in llm_result.number /\ \E f \in DOMAIN base : ~Truthy(base[f])

\* the statement of the try block in extract that raises: 1 to 3 the merges of
\* patient, insurance and provider, 4 and 5 the extends of diagnoses and
\* procedures, 6 when none raises
RaisedAt(doc, llm_result) ==
    IF MergeRaises(ExtractPatientInfo(doc), llm_result, "patient") THEN 1
    ELSE IF MergeRaises(ExtractInsuranceInfo(doc), llm_result, "insurance") THEN 2
    ELSE IF MergeRaises(ExtractProviderInfo(doc), llm_result, "provider") THEN 3
    ELSE IF "diagnoses" \in llm_result.number THEN 4
    ELSE IF "procedures" \in llm_result.number /\ ExtractProcedureCodes(doc) = << >> THEN 5
    ELSE 6

\* extract: ok is FALSE when building the ExtractedData raises.  The merges
\* write into the pattern results in place, so what ran before a statement
\* of the try block raised stays written.
Extract(doc, use_llm_enhancement, llm_result) ==
    LET enhanced == use_llm_enhancement /\ llm_result.ok
        raised_at == RaisedAt(doc, llm_result)
        patient == IF enhanced /\ raised_at > 1
                   THEN MergeInfo(ExtractPatientInfo(doc), llm_result.patient)
                   ELSE ExtractPatientInfo(doc)
        insurance == IF enhanced /\ raised_at > 2
                     THEN MergeInfo(ExtractInsuranceInfo(doc), llm_result.insurance)
                     ELSE ExtractInsuranceInfo(doc)
        provider == IF enhanced /\ raised_at > 3
                    THEN MergeInfo(ExtractProviderInfo(doc), llm_result.provider)
                    ELSE ExtractProviderInfo(doc)
        more_dx == IF enhanced /\ raised_at > 4 THEN llm_result.diagnoses ELSE << >>
        more_proc == IF enhanced /\ raised_at > 5 /\ ExtractProcedureCodes(doc) = << >>
                     THEN llm_result.procedures ELSE << >>
        accepted == /\ \A i \in 1..Len(more_dx) : CodeItemAccepted(more_dx[i])
                    /\ \A i \in 1..Len(more_proc) : CodeItemAccepted(more_proc[i])
        diagnoses == ExtractDiagnosisCodes(doc)
                     \o [i \in 1..Len(more_dx) |-> LLMDiagnosisCode(more_dx[i])]
        procedures == ExtractProcedureCodes(doc)
                      \o [i \in 1..Len(more_proc) |-> LLMProcedureCode(more_proc[i])]
    IN  [ok |-> accepted, patient |-> patient, insurance |-> insurance,
         provider |-> provider,
         diagnoses |-> IF accepted THEN diagnoses ELSE << >>,
         procedures |-> IF accepted THEN procedures ELSE << >>,
         extraction_confidence |->
             CalculateConfidence(patient, insurance, provider,
                                 ExtractDiagnosisCodes(doc) \o more_dx,
                                 ExtractProcedureCodes(doc) \o more_proc)]

(***************************************************************************)
(* The Claim Builder (src/cms1500/generator.py).  Each _map_ step returns  *)
(* the claim data with its keys set.                                       *)
(***************************************************************************)
\* str.split('-')
RECURSIVE SplitOnDash(_)
SplitOnDash(s) ==
    IF DashAt(s) = {} THEN <<s>>
    ELSE <<SubSeq(s, 1, FirstDash(s) - 1)>>
         \o SplitOnDash(SubSeq(s, FirstDash(s) + 1, Len(s)))

\* YYYY-MM-DD to MM DD YYYY
ClaimDob(dob) ==
    LET dob_parts == SplitOnDash(dob)
    IN  dob_parts[2] \o <<" ">> \o dob_parts[3] \o <<" ">> \o dob_parts[1]

\* an argument of create_claim, or a record of an ExtractedData, that is None
NotSupplied == [supplied |-> FALSE]

MapPatientInfo(data, patient) ==
    [data EXCEPT
        !.patient_last_name = IF Truthy(patient.last_name) THEN patient.last_name ELSE @,
        !.patient_first_name = IF Truthy(patient.first_name) THEN patient.first_name ELSE @,
        !.patient_middle_initial =
            IF Truthy(patient.middle_name) THEN <<patient.middle_name[1]>> ELSE @,
        !.patient_dob = IF Truthy(patient.dob) /\ Len(SplitOnDash(patient.dob)) = 3
                        THEN ClaimDob(patient.dob) ELSE @,
        !.patient_sex = IF Truthy(patient.sex) THEN patient.sex ELSE @,
        !.patient_state = IF Truthy(patient.state) THEN patient.state ELSE @]

Self == <<"s", "e", "l", "f">>
Spouse == <<"s", "p", "o", "u", "s", "e">>
Child == <<"c", "h", "i", "l", "d">>

MapInsuranceInfo(data, insurance, patient) ==
    LET relationship == Lower(Either(insurance.subscriber_relationship, Self))
    IN  [data EXCEPT
            !.insured_id_number =
                IF Truthy(insurance.policy_number) THEN insurance.policy_number ELSE @,
            !.insured_name =
                IF Truthy(insurance.subscriber_name) THEN insurance.subscriber_name ELSE @,
            !.patient_relationship_self = relationship = Self,
            !.patient_relationship_spouse = relationship = Spouse,
            !.patient_relationship_child = relationship = Child,
            !.patient_relationship_other = relationship \notin {Self, Spouse, Child},
            !.insured_state = IF relationship = Self /\ patient # NotSupplied
                              THEN patient.state ELSE @]

MapProviderInfo(data, provider) ==
    LET parts == SplitOnDash(provider.tax_id)
    IN  [data EXCEPT
            !.referring_provider_name =
                IF Truthy(provider.provider_name) THEN provider.provider_name ELSE @,
            !.referring_provider_npi =
                IF Truthy(provider.provider_npi) THEN provider.provider_npi ELSE @,
            !.federal_tax_id = IF Truthy(provider.tax_id) THEN provider.tax_id ELSE @,
            !.tax_id_type_ssn = Truthy(provider.tax_id) /\ Len(parts) = 3,
            !.tax_id_type_ein = Truthy(provider.tax_id) /\ Len(parts) \in {1, 2},
            !.service_facility_name =
                IF Truthy(provider.facility_name) THEN provider.facility_name ELSE @,
            !.service_facility_npi =
                IF Truthy(provider.facility_npi) THEN provider.facility_npi ELSE @,
            !.service_facility_state =
                IF Truthy(provider.facility_state) THEN provider.facility_state ELSE @,
            !.billing_provider_name = Either(provider.facility_name, provider.provider_name),
            !.billing_provider_npi = Either(provider.facility_npi, provider.provider_npi),
            !.billing_provider_state = provider.facility_state]

\* _map_diagnoses: the i-th key of diagnosis_letters fills the i-th slot
CodedDiagnosis(coding_result, dx_letter) ==
    \E i \in 1..Len(coding_result.diagnoses) :
        coding_result.diagnoses[i].code = dx_letter /\ dx_letter # << >>

MapClaimDiagnoses(data, coding_result) ==
    LET keys == DictKeys(coding_result.diagnosis_letters)
    IN  [data EXCEPT
            !.icd_indicator = "0",
            !.diagnoses = [i \in 1..12 |->
                IF i <= Len(keys) /\ CodedDiagnosis(coding_result, keys[i])
                THEN keys[i] ELSE @[i]]]

\* _map_service_lines: one ServiceLineInfo for each of the first six procedures
LineCharge == 100
LineUnits == 1

ServiceLineOf(proc, now) ==
    LET dx_pointers == proc.metadata.diagnosis_pointers
        code_parts == SplitOnDash(proc.code)
    IN  ServiceLineInfo(now, code_parts[1],
                        IF Len(code_parts) > 1 THEN code_parts[2] ELSE None,
                        IF dx_pointers # << >> THEN dx_pointers ELSE <<"A">>,
                        LineCharge, LineUnits)

BuiltLines(coding_result, now) ==
    LET first == SubSeq(coding_result.procedures, 1,
                        Min(Len(coding_result.procedures), MaxServiceLines))
    IN  [i \in 1..Len(first) |-> ServiceLineOf(first[i], now)]

MapServiceLines(data, coding_result, now) ==
    [data EXCEPT !.lines_given = TRUE,
                 !.service_lines = BuiltLines(coding_result, now),
                 !.total_charge = LineTotal(BuiltLines(coding_result, now))]

\* claim_data.update(overrides)
NoOverrides ==
    [lines_given |-> FALSE, service_lines |-> << >>, total_charge |-> Omitted,
     insured_id_number |-> None]

ApplyOverrides(data, given) ==
    [data EXCEPT
        !.lines_given = @ \/ given.lines_given,
        !.service_lines = IF given.lines_given THEN given.service_lines ELSE @,
        !.total_charge = IF given.total_charge # Omitted THEN given.total_charge ELSE @,
        !.insured_id_number =
            IF given.insured_id_number # None THEN given.insured_id_number ELSE @]

\* create_claim up to the call of the constructor; ok is FALSE when building
\* a service line raises.  A record that is None is not mapped.
CreateClaimData(extracted, coding_result, given, now) ==
    LET patient_data == IF extracted.patient # NotSupplied
                        THEN MapPatientInfo(ClaimDefaults, extracted.patient)
                        ELSE ClaimDefaults
        insurance_data == IF extracted.insurance # NotSupplied
                          THEN MapInsuranceInfo(patient_data, extracted.insurance,
                                                extracted.patient)
                          ELSE patient_data
        provider_data == IF extracted.provider # NotSupplied
                         THEN MapProviderInfo(insurance_data, extracted.provider)
                         ELSE insurance_data
        diagnosis_data == MapClaimDiagnoses(provider_data, coding_result)
        lines_data == MapServiceLines(diagnosis_data, coding_result, now)
    IN  [ok |-> \A i \in 1..Len(lines_data.service_lines) :
                    ServiceLineAccepted(lines_data.service_lines[i]),
         data |-> ApplyOverrides(lines_data, given)]

(***************************************************************************)
(* Values of the claim variables while no claim is being built.            *)
(***************************************************************************)
NoText ==
    [name |-> << >>, dob |-> None, sex |-> None, insurance_name |-> None,
     policy_number |-> None, relationship |-> None, provider_npi |-> None,
     facility_npi |-> None, tax_id |-> None, icd |-> << >>, cpt |-> << >>]

NoInfo(fields) == [f \in fields |-> None]
PatientFields == {"first_name", "last_name", "middle_name", "dob", "sex", "state"}
InsuranceFields == {"insurance_name", "policy_number", "subscriber_name",
                    "subscriber_relationship"}
ProviderFields == {"provider_name", "provider_npi", "facility_name", "facility_npi",
                   "facility_state", "tax_id"}

LLMExtractFailure ==
    [ok |-> FALSE, patient |-> NoInfo(PatientFields), insurance |-> NoInfo(InsuranceFields),
     provider |-> NoInfo(ProviderFields), diagnoses |-> << >>, procedures |-> << >>,
     number |-> {}]

NoExtraction == Extract(NoText, FALSE, LLMExtractFailure)

NoClaim == ClaimOf(ClaimDefaults)

\* Retry(total=3, ...) mounted on the client's session
RetryTotal == 3

RequestIdle ==
    /\ post_attempts = 0
    /\ retry_total = RetryTotal

\* initialize_session_state, before anyone has logged in
NoUser == "None"
SessionIdle ==
    /\ authenticated = FALSE
    /\ username = NoUser
    /\ consent_given = FALSE
    /\ consents = {}
    /\ invoked_for = {}

ClaimIdle ==
    /\ repeated_claim = NoClaim
    /\ RequestIdle
    /\ SessionIdle
    /\ text = NoText
    /\ llm_extract = LLMExtractFailure
    /\ extracted_data = NoExtraction
    /\ overrides = NoOverrides
    /\ claim_data = ClaimDefaults
    /\ cms1500_claim = NoClaim
    /\ validation_result = FreshResult

(***************************************************************************)
(* Initial states and steps of suggest_codes.                              *)
(***************************************************************************)
CodingInputs ==
    \/ /\ existing_diagnoses \in ShortDiagnoses
       /\ existing_procedures \in ShortProcedures
       /\ \/ use_llm = FALSE /\ llm_response = LLMFailure
          \/ use_llm = TRUE /\ llm_response \in LLMResponses
       /\ extraction_confidence \in ExtractionConfidences
    \/ /\ existing_diagnoses \in LongDiagnoses
       /\ existing_procedures \in SeqsUpTo({PatternProcedure(1)}, 1)
       /\ use_llm = FALSE /\ llm_response = LLMFailure
       /\ extraction_confidence = NoConfidence
    \/ /\ existing_diagnoses \in SeqsUpTo({PatternDiagnosis(1)}, 1)
       /\ existing_procedures \in LongProcedures
       /\ use_llm = FALSE /\ llm_response = LLMFailure
       /\ extraction_confidence = NoConfidence

CodingStart ==
    /\ all_diagnoses = << >>
    /\ all_procedures = << >>
    /\ diagnosis_letters = << >>
    /\ dx_proc_map = << >>
    /\ mismatches = << >>
    /\ overall_confidence = NoResult
    /\ backfill_runs = 0
    /\ first_backfill = << >>

Init ==
    /\ pc = "suggest_codes"
    /\ CodingInputs
    /\ CodingStart
    /\ ClaimIdle

(***************************************************************************)
(* suggest_codes, one action for each step of its body.                    *)
(***************************************************************************)
MergeSuggestions ==
    /\ pc = "suggest_codes"
    /\ LET llm == IF use_llm THEN LLMSuggestCodes(llm_response)
                  ELSE [diagnoses |-> << >>, procedures |-> << >>]
       IN  /\ all_diagnoses' = MergeDiagnosisSuggestions(existing_diagnoses, llm.diagnoses)
           /\ all_procedures' = MergeProcedureSuggestions(existing_procedures, llm.procedures)
    /\ pc' = "merged"
    /\ UNCHANGED <<use_llm, llm_response, existing_diagnoses, existing_procedures,
                   extraction_confidence, diagnosis_letters, dx_proc_map,
                   mismatches, overall_confidence, backfill_runs, first_backfill>>
    /\ UNCHANGED <<claim_vars, request_vars, session_vars>>

AssignLetters ==
    /\ pc = "merged"
    /\ diagnosis_letters' = AssignDiagnosisLetters(all_diagnoses)
    /\ pc' = "lettered"
    /\ UNCHANGED <<use_llm, llm_response, existing_diagnoses, existing_procedures,
                   extraction_confidence, all_diagnoses, all_procedures, dx_proc_map,
                   mismatches, overall_confidence, backfill_runs, first_backfill>>
    /\ UNCHANGED <<claim_vars, request_vars, session_vars>>

MapDiagnoses ==
    /\ pc = "lettered"
    /\ dx_proc_map' = MapDiagnosesToProcedures(all_diagnoses, all_procedures)
    /\ pc' = "mapped"
    /\ UNCHANGED <<use_llm, llm_response, existing_diagnoses, existing_procedures,
                   extraction_confidence, all_diagnoses, all_procedures,
                   diagnosis_letters, mismatches, overall_confidence,
                   backfill_runs, first_backfill>>
    /\ UNCHANGED <<claim_vars, request_vars, session_vars>>

BackfillPointers ==
    /\ pc = "mapped"
    /\ all_procedures' = UpdateDiagnosisPointers(all_procedures, dx_proc_map,
                                                  diagnosis_letters)
    /\ first_backfill' = all_procedures'
    /\ backfill_runs' = 1
    /\ pc' = "backfilled"
    /\ UNCHANGED <<use_llm, llm_response, existing_diagnoses, existing_procedures,
                   extraction_confidence, all_diagnoses, diagnosis_letters,
                   dx_proc_map, mismatches, overall_confidence>>
    /\ UNCHANGED <<claim_vars, request_vars, session_vars>>

FindMismatches ==
    /\ pc = "backfilled"
    /\ mismatches' = DetectMismatches(all_diagnoses, all_procedures, dx_proc_map)
    /\ pc' = "checked"
    /\ UNCHANGED <<use_llm, llm_response, existing_diagnoses, existing_procedures,
                   extraction_confidence, all_diagnoses, all_procedures,
                   diagnosis_letters, dx_proc_map, overall_confidence,
                   backfill_runs, first_backfill>>
    /\ UNCHANGED <<claim_vars, request_vars, session_vars>>

ScoreConfidence ==
    /\ pc = "checked"
    /\ overall_confidence' = CalculateOverallConfidence(all_diagnoses, all_procedures,
                                                        mismatches, extraction_confidence)
    /\ pc' = "coded"
    /\ UNCHANGED <<use_llm, llm_response, existing_diagnoses, existing_procedures,
                   extraction_confidence, all_diagnoses, all_procedures,
                   diagnosis_letters, dx_proc_map, mismatches,
                   backfill_runs, first_backfill>>
    /\ UNCHANGED <<claim_vars, request_vars, session_vars>>

\* the back-fill step run once more on the returned CodingResult
BackfillAgain ==
    /\ pc = "coded"
    /\ backfill_runs = 1
    /\ all_procedures' = UpdateDiagnosisPointers(all_procedures, dx_proc_map,
                                                  diagnosis_letters)
    /\ backfill_runs' = 2
    /\ UNCHANGED <<pc, use_llm, llm_response, existing_diagnoses, existing_procedures,
                   extraction_confidence, all_diagnoses, diagnosis_letters,
                   dx_proc_map, mismatches, overall_confidence, first_backfill>>
    /\ UNCHANGED <<claim_vars, request_vars, session_vars>>

Next ==
    \/ MergeSuggestions
    \/ AssignLetters
    \/ MapDiagnoses
    \/ BackfillPointers
    \/ FindMismatches
    \/ ScoreConfidence
    \/ BackfillAgain

Spec == Init /\ [][Next]_vars

(***************************************************************************)
(* _calculate_overall_confidence on its own: any suggestions, any list of  *)
(* mismatches, any extraction confidence.                                  *)
(***************************************************************************)
Scored(code, confidence) ==
    [code |-> code, code_type |-> "ICD-10", description |-> "Test",
     rationale |-> "Test", confidence |-> confidence, source_text |-> "",
     metadata |-> EmptyMetadata]

MismatchList(errors, warnings, infos) ==
    [i \in 1..errors |-> Mismatch("duplicate_code", "error", DxCode(1))]
        \o [i \in 1..warnings |-> Mismatch("missing_diagnosis", "warning", ProcCode(1))]
        \o [i \in 1..infos |-> Mismatch("diagnosis_without_procedure", "info", DxCode(2))]

MaxFindings == 3     \* most mismatches of one severity

ConfidenceInputs ==
    /\ all_diagnoses \in SeqsUpTo({Scored(DxCode(1), c) : c \in {0, 8, 9, 10}}, 2)
    /\ all_procedures \in SeqsUpTo({Scored(ProcCode(1), c) : c \in {0, 8, 9, 10}}, 2)
    /\ mismatches \in {MismatchList(e, w, i) :
                          e \in 0..MaxFindings, w \in 0..MaxFindings, i \in 0..1}
    /\ extraction_confidence \in {NoConfidence, 0, 5, ConfidenceScale}

InitConfidence ==
    /\ pc = "checked"
    /\ ConfidenceInputs
    /\ use_llm = FALSE
    /\ llm_response = LLMFailure
    /\ existing_diagnoses = << >>
    /\ existing_procedures = << >>
    /\ diagnosis_letters = << >>
    /\ dx_proc_map = << >>
    /\ overall_confidence = NoResult
    /\ backfill_runs = 0
    /\ first_backfill = << >>
    /\ ClaimIdle

NextConfidence == ScoreConfidence

SpecConfidence == InitConfidence /\ [][NextConfidence]_vars

(***************************************************************************)
(* _detect_mismatches on its own: any diagnosis list, repeated codes       *)
(* included, any procedure list and any map from diagnoses to procedures.  *)
(***************************************************************************)
MaxMismatchDx == 3       \* longest diagnosis list given to _detect_mismatches
MaxMismatchProc == 2     \* longest procedure list given to _detect_mismatches

MismatchProcLists ==
    {<< >>, <<ProcCode(1)>>, <<ProcCode(2)>>, <<ProcCode(1), ProcCode(2)>>}

\* dicts over the keys J20.9 and I10, either of which may be missing
MismatchMaps ==
    {<< >>}
        \cup {<<[k |-> DxCode(i), v |-> procs]>> :
                 i \in 1..2, procs \in MismatchProcLists}
        \cup {<<[k |-> DxCode(1), v |-> first], [k |-> DxCode(2), v |-> second]>> :
                 first \in MismatchProcLists, second \in MismatchProcLists}

MismatchInputs ==
    /\ all_diagnoses \in SeqsUpTo({Scored(DxCode(i), 8) : i \in 1..2}, MaxMismatchDx)
    /\ all_procedures \in SeqsUpTo({Scored(ProcCode(i), 8) : i \in 1..2},
                                    MaxMismatchProc)
    /\ dx_proc_map \in MismatchMaps

InitMismatch ==
    /\ pc = "backfilled"
    /\ MismatchInputs
    /\ use_llm = FALSE
    /\ llm_response = LLMFailure
    /\ existing_diagnoses = << >>
    /\ existing_procedures = << >>
    /\ extraction_confidence = NoConfidence
    /\ diagnosis_letters = << >>
    /\ mismatches = << >>
    /\ overall_confidence = NoResult
    /\ backfill_runs = 0
    /\ first_backfill = << >>
    /\ ClaimIdle

NextMismatch == FindMismatches

SpecMismatch == InitMismatch /\ [][NextMismatch]_vars

(***************************************************************************)
(* C1.  The letter map that suggest_codes builds from its merged diagnosis *)
(* list of length N has exactly min(N, 12) entries; the i-th diagnosis     *)
(* holds the i-th letter of A..L, the letters used are exactly the first   *)
(* min(N, 12), and a diagnosis past the 12th has no letter.                *)
(***************************************************************************)
Lettered == pc \in {"lettered", "mapped", "backfilled", "checked", "coded"}

LetterAssignmentBound ==
    Lettered =>
        LET n == Min(Len(all_diagnoses), 12)
        IN  /\ Len(diagnosis_letters) = n
            /\ \A i \in 1..n :
                  /\ DictHas(diagnosis_letters, all_diagnoses[i].code)
                  /\ DictGet(diagnosis_letters, all_diagnoses[i].code) = Letters[i]
            /\ Range(DictValues(diagnosis_letters)) = {Letters[i] : i \in 1..n}
            /\ \A i \in (n + 1)..Len(all_diagnoses) :
                  ~DictHas(diagnosis_letters, all_diagnoses[i].code)

LetterAssignmentWitness ==
    /\ pc = "lettered"
    /\ Len(all_diagnoses) > 12
    /\ Len(diagnosis_letters) = 12

(***************************************************************************)
(* C2.  Diagnoses a procedure is listed under in the dx -> procedure map.  *)
(***************************************************************************)
LinkedDiagnoses(proc_code) ==
    {dx_proc_map[i].k : i \in {j \in 1..Len(dx_proc_map) :
                                  proc_code \in Range(dx_proc_map[j].v)}}

Unpointed == {i \in 1..Len(all_procedures) : PointersOf(all_procedures[i]) = << >>}

\* C2 as stated: right after the mapping, every procedure without explicit
\* pointers is listed under exactly one diagnosis, the first of the list.
ConservativeMappingAsStated ==
    pc = "mapped" =>
        \A i \in Unpointed :
            /\ Cardinality(LinkedDiagnoses(all_procedures[i].code)) = 1
            /\ all_diagnoses # << >> =>
                  LinkedDiagnoses(all_procedures[i].code) = {all_diagnoses[1].code}

\* C2 as amended: with a non-empty diagnosis list every procedure without
\* explicit pointers is listed under the first diagnosis and no other; with
\* an empty diagnosis list it is listed under no diagnosis.
ConservativeMapping ==
    pc = "mapped" =>
        \A i \in Unpointed :
            LinkedDiagnoses(all_procedures[i].code) =
                IF all_diagnoses = << >> THEN {} ELSE {all_diagnoses[1].code}

ConservativeMappingWitness ==
    /\ pc = "mapped"
    /\ DictKeys(dx_proc_map) = <<DxCode(1), DxCode(2)>>
    /\ Unpointed = {1}
    /\ all_procedures[1].code = ProcCode(1)
    /\ DictGet(dx_proc_map, DxCode(1)) = <<ProcCode(1)>>
    /\ DictGet(dx_proc_map, DxCode(2)) = << >>

(***************************************************************************)
(* C3.  A second run of the pointer back-fill on the same procedures, map  *)
(* and letters leaves every procedure's diagnosis_pointers as the first    *)
(* run left them.                                                          *)
(***************************************************************************)
PointerMetadata(procedures) ==
    [i \in 1..Len(procedures) |->
        <<procedures[i].metadata.has_pointers,
          procedures[i].metadata.diagnosis_pointers>>]

BackfillIdempotent ==
    backfill_runs = 2 =>
        PointerMetadata(all_procedures) = PointerMetadata(first_backfill)

BackfillIdempotentWitness ==
    /\ backfill_runs = 2
    /\ Len(existing_procedures) = 1
    /\ existing_procedures[1].diagnosis_pointers = << >>
    /\ Len(all_procedures) = 1
    /\ all_procedures[1].metadata.diagnosis_pointers = <<"A">>

(***************************************************************************)
(* C4.  The overall confidence lies in [0, 1].                             *)
(***************************************************************************)
ConfidenceBounds ==
    pc = "coded" =>
        /\ 0 <= overall_confidence.num
        /\ overall_confidence.num <= overall_confidence.den

\* a case where the penalty exceeds the weighted score
ConfidenceBoundsWitness ==
    /\ pc = "coded"
    /\ all_procedures # << >>
    /\ CountSeverity(mismatches, "error") > 0
    /\ SumConfidence(all_diagnoses, 1) + SumConfidence(all_procedures, 1) > 0
    /\ overall_confidence.num = 0

(***************************************************************************)
(* The pipeline in order: extract, suggest_codes, create_claim, validate.  *)
(***************************************************************************)
MaxTextDx == 2       \* most diagnosis codes found in a document
MaxTextProc == 7     \* most procedure codes found in a document

John == <<"J", "o", "h", "n">>
Michael == <<"M", "i", "c", "h", "a", "e", "l">>
Doe == <<"D", "o", "e">>
PolicyNumber == <<"A", "B", "C", "1", "2", "3">>
NPI == <<"1", "2", "3", "4", "5", "6", "7", "8", "9", "0">>
FacilityNPI == <<"2", "2", "2", "2", "2", "2", "2", "2", "2", "2">>

PatientCaptures ==
    {[name |-> << >>, dob |-> None, sex |-> None],
     [name |-> <<John, Doe>>, dob |-> <<"0", "1", "/", "1", "5", "/", "1", "9", "8", "0">>, sex |-> <<"M">>],
     [name |-> <<John, Michael, Doe>>, dob |-> <<"1", "3", "-", "4", "5", "-", "2", "0", "2", "0">>, sex |-> <<"f">>],
     [name |-> <<John, Doe>>, dob |-> <<"1", "/", "5", "/", "8", "0">>, sex |-> None],
     [name |-> <<John, Michael, Doe>>, dob |-> <<"0", "1", "/", "1", "5", "/", "1", "9", "8", "0">>, sex |-> <<"M", "a", "l", "e">>]}

InsuranceCaptures ==
    {[insurance_name |-> None, policy_number |-> None, relationship |-> None],
     [insurance_name |-> None, policy_number |-> PolicyNumber, relationship |-> None],
     [insurance_name |-> <<"A", "c", "m", "e">>, policy_number |-> PolicyNumber,
      relationship |-> <<"s", "p", "o", "u", "s", "e">>]}

\* the provider NPI expression also matches a facility NPI line
ProviderCaptures ==
    {[provider_npi |-> None, facility_npi |-> None, tax_id |-> None],
     [provider_npi |-> NPI, facility_npi |-> None, tax_id |-> None],
     [provider_npi |-> NPI, facility_npi |-> FacilityNPI, tax_id |-> <<"1", "2", "-", "3", "4", "5", "6", "7", "8", "9">>]}

CptCaptures ==
    {[i \in 1..n |-> [code |-> ProcCode(i), modifier |-> << >>]] : n \in {0, 1, MaxTextProc}}
        \cup {<<[code |-> ProcCode(1), modifier |-> << >>],
                [code |-> ProcCode(1), modifier |-> <<"2", "5">>]>>}

Texts ==
    {[name |-> p.name, dob |-> p.dob, sex |-> p.sex,
      insurance_name |-> i.insurance_name, policy_number |-> i.policy_number,
      relationship |-> i.relationship, provider_npi |-> v.provider_npi,
      facility_npi |-> v.facility_npi, tax_id |-> v.tax_id,
      icd |-> [k \in 1..n |-> DxCode(k)], cpt |-> c] :
        p \in PatientCaptures, i \in InsuranceCaptures, v \in ProviderCaptures,
        n \in 0..MaxTextDx, c \in CptCaptures}

\* answers of the model to _llm_extract
LLMExtractAnswer(patient, insurance, provider, diagnoses, procedures) ==
    [ok |-> TRUE, patient |-> patient, insurance |-> insurance, provider |-> provider,
     diagnoses |-> diagnoses, procedures |-> procedures, number |-> {}]

\* the same answer with a JSON number under each of the keys
WithNumbers(answer, keys) == [answer EXCEPT !.number = keys]

LLMExtractResults ==
    {LLMExtractFailure,
     WithNumbers(
         LLMExtractAnswer(
             [NoInfo(PatientFields) EXCEPT !.first_name = John, !.last_name = Doe],
             NoInfo(InsuranceFields), NoInfo(ProviderFields), << >>, << >>),
         {"insurance"}),
     LLMExtractAnswer(
         [NoInfo(PatientFields) EXCEPT !.first_name = John, !.last_name = Doe,
                                       !.dob = <<"1", "9", "8", "0", "-", "0", "1", "-", "1", "5">>, !.sex = <<"M">>,
                                       !.state = <<"C", "A">>],
         [NoInfo(InsuranceFields) EXCEPT !.policy_number = <<"X", "Y", "Z", "7", "8", "9">>,
                                         !.subscriber_relationship = <<"S", "E", "L", "F">>],
         [NoInfo(ProviderFields) EXCEPT !.provider_name = <<"S", "m", "i", "t", "h">>, !.provider_npi = NPI],
         <<[code |-> DxCode(2), description |-> "Hypertension", confidence |-> 9]>>,
         <<[code |-> ProcCode(3), description |-> "Office visit", confidence |-> 9]>>),
     LLMExtractAnswer(
         [NoInfo(PatientFields) EXCEPT !.sex = <<"F", "e", "m", "a", "l", "e">>, !.state = <<"C", "a", "l", "i", "f", "o", "r", "n", "i", "a">>],
         [NoInfo(InsuranceFields) EXCEPT !.subscriber_relationship = <<"P", "a", "r", "e", "n", "t">>],
         NoInfo(ProviderFields), << >>, << >>),
     LLMExtractAnswer(
         NoInfo(PatientFields), NoInfo(InsuranceFields), NoInfo(ProviderFields),
         <<[code |-> None, description |-> "Cough", confidence |-> 9]>>, << >>)}

PipelineLLMResponses ==
    {LLMFailure,
     LLMAnswer(<<LLMItem(DxCode(2), "Hypertension", 9)>>,
               <<LLMItem(ProcCode(3), "Office visit", 9)>>)}

\* a service line the caller built
RequestLine(pointer) ==
    ServiceLineInfo(<<"0", "1", " ", "1", "5", " ", "2", "0", "2", "4">>, <<"9", "9", "2", "1", "3">>, None, pointer, 150, 1)

OverrideChoices ==
    {NoOverrides,
     [NoOverrides EXCEPT !.total_charge = 250],
     [NoOverrides EXCEPT !.total_charge = 0],
     [NoOverrides EXCEPT !.lines_given = TRUE, !.service_lines = <<RequestLine(<<"A">>)>>],
     [NoOverrides EXCEPT !.lines_given = TRUE, !.service_lines = <<RequestLine(<<"A">>)>>,
                         !.total_charge = 150]}

\* datetime.now() as MM DD YYYY
Clock == {<<"1", "1", " ", "0", "3", " ", "2", "0", "2", "6">>, <<"0", "2", " ", "2", "9", " ", "2", "0", "2", "4">>}

InitPipeline ==
    /\ pc = "extract"
    /\ text \in Texts
    /\ \/ use_llm = FALSE /\ llm_extract = LLMExtractFailure /\ llm_response = LLMFailure
       \/ use_llm = TRUE /\ llm_extract \in LLMExtractResults
                         /\ llm_response \in PipelineLLMResponses
    /\ overrides \in OverrideChoices
    /\ existing_diagnoses = << >>
    /\ existing_procedures = << >>
    /\ extraction_confidence = NoConfidence
    /\ CodingStart
    /\ extracted_data = NoExtraction
    /\ claim_data = ClaimDefaults
    /\ cms1500_claim = NoClaim
    /\ validation_result = FreshResult
    /\ repeated_claim = NoClaim
    /\ RequestIdle
    /\ SessionIdle

\* extractor.extract(parsed['text'])
ExtractText ==
    /\ pc = "extract"
    /\ extracted_data' = Extract(text, use_llm, llm_extract)
    /\ IF extracted_data'.ok
       THEN /\ existing_diagnoses' = extracted_data'.diagnoses
            /\ existing_procedures' = extracted_data'.procedures
            /\ pc' = "suggest_codes"
       ELSE /\ UNCHANGED <<existing_diagnoses, existing_procedures>>
            /\ pc' = "raised"
    /\ UNCHANGED <<use_llm, llm_response, extraction_confidence, all_diagnoses,
                   all_procedures, diagnosis_letters, dx_proc_map, mismatches,
                   overall_confidence, backfill_runs, first_backfill>>
    /\ UNCHANGED <<text, llm_extract, overrides, claim_data, cms1500_claim,
                   validation_result, repeated_claim, request_vars, session_vars>>

CodingResult ==
    [diagnoses |-> all_diagnoses, procedures |-> all_procedures,
     diagnosis_letters |-> diagnosis_letters]

\* generator.create_claim(extracted_data, coding_result, **overrides)
CreateClaim ==
    /\ pc = "coded"
    /\ \E now \in Clock :
        LET built == CreateClaimData(extracted_data, CodingResult, overrides, now)
        IN  IF built.ok /\ ClaimAccepted(built.data)
            THEN /\ claim_data' = built.data
                 /\ cms1500_claim' = ClaimOf(built.data)
                 /\ pc' = "built"
            ELSE /\ claim_data' = built.data
                 /\ UNCHANGED cms1500_claim
                 /\ pc' = "raised"
    /\ UNCHANGED <<coding_vars, text, llm_extract, extracted_data, overrides,
                   validation_result, repeated_claim, request_vars, session_vars>>

\* validator.validate(claim)
ValidateClaim ==
    /\ pc = "built"
    /\ validation_result' = Validate(cms1500_claim)
    /\ pc' = "validated"
    /\ UNCHANGED <<coding_vars, text, llm_extract, extracted_data, overrides,
                   claim_data, cms1500_claim, repeated_claim, request_vars, session_vars>>

\* a second generator.create_claim(extracted_data, coding_result, **overrides)
\* on the arguments of the first, at its own reading of the clock
CreateClaimAgain ==
    /\ pc = "built"
    /\ \E now \in Clock :
        LET built == CreateClaimData(extracted_data, CodingResult, overrides, now)
        IN  repeated_claim' = IF built.ok /\ ClaimAccepted(built.data)
                              THEN ClaimOf(built.data) ELSE NoClaim
    /\ pc' = "built_again"
    /\ UNCHANGED <<coding_vars, text, llm_extract, extracted_data, overrides,
                   claim_data, cms1500_claim, validation_result, request_vars, session_vars>>

NextPipeline ==
    \/ ExtractText
    \/ MergeSuggestions
    \/ AssignLetters
    \/ MapDiagnoses
    \/ BackfillPointers
    \/ FindMismatches
    \/ ScoreConfidence
    \/ CreateClaim
    \/ CreateClaimAgain
    \/ ValidateClaim

SpecPipeline == InitPipeline /\ [][NextPipeline]_vars

(***************************************************************************)
(* A claim constructed directly from keyword arguments, then validated.    *)
(***************************************************************************)
MaxLines == 7        \* most service lines passed to the constructor

ValidRequest ==
    [ClaimDefaults EXCEPT
        !.insured_id_number = <<"1", "2", "3", "4", "5", "6", "7", "8", "9", "0", "A">>,
        !.patient_last_name = Doe,
        !.patient_first_name = John,
        !.patient_dob = <<"0", "1", " ", "1", "5", " ", "1", "9", "8", "0">>,
        !.patient_sex = <<"M">>,
        !.patient_relationship_self = TRUE,
        !.icd_indicator = "0",
        !.diagnoses = [NoDiagnoses EXCEPT ![1] = DxCode(1), ![2] = DxCode(2)],
        !.lines_given = TRUE,
        !.service_lines = <<RequestLine(<<"A", "B">>)>>,
        !.federal_tax_id = <<"1", "2", "3", "4", "5", "6", "7", "8", "9">>,
        !.tax_id_type_ein = TRUE,
        !.billing_provider_npi = NPI,
        !.total_charge = 150]

RequestedNPIs ==
    {None, NPI, <<"1", "2", "3">>, <<"1", "2", "3", "4", "5", "6", "7", "8", "9", "0", "1">>, <<"1", "2", "3", "4", "5", "A", "7", "8", "9", "0">>, NPI \o <<"\n">>}

RequestedPointers == {<<"A">>, <<"A", "B">>, <<"B">>, <<"Z">>, << >>}

RequestedLines ==
    {[given |-> FALSE, lines |-> << >>], [given |-> TRUE, lines |-> << >>]}
        \cup {[given |-> TRUE,
               lines |-> [i \in 1..n |-> RequestLine(IF i = 1 THEN ptr ELSE <<"A">>)]] :
                 n \in 1..MaxLines, ptr \in RequestedPointers}

RequestedDiagnoses ==
    {NoDiagnoses,
     [NoDiagnoses EXCEPT ![1] = DxCode(1)],
     [NoDiagnoses EXCEPT ![1] = DxCode(1), ![2] = DxCode(2)],
     [NoDiagnoses EXCEPT ![1] = DxCode(1), ![2] = <<"U", "0", "7", ".", "1">>],
     [NoDiagnoses EXCEPT ![1] = <<"I", "N", "V", "A", "L", "I", "D">>]}

ClaimRequests ==
    {[ValidRequest EXCEPT !.billing_provider_npi = npi,
                          !.lines_given = l.given,
                          !.service_lines = l.lines,
                          !.diagnoses = dx,
                          !.total_charge = total,
                          !.patient_sex = sex] :
        npi \in RequestedNPIs, l \in RequestedLines, dx \in RequestedDiagnoses,
        total \in {Omitted, 0, 150, 999}, sex \in {<<"M">>, <<"X">>}}

CodingIdle ==
    /\ use_llm = FALSE
    /\ llm_response = LLMFailure
    /\ existing_diagnoses = << >>
    /\ existing_procedures = << >>
    /\ extraction_confidence = NoConfidence
    /\ CodingStart

InitClaim ==
    /\ pc = "construct"
    /\ claim_data \in ClaimRequests
    /\ CodingIdle
    /\ text = NoText
    /\ llm_extract = LLMExtractFailure
    /\ extracted_data = NoExtraction
    /\ overrides = NoOverrides
    /\ cms1500_claim = NoClaim
    /\ validation_result = FreshResult
    /\ repeated_claim = NoClaim
    /\ RequestIdle
    /\ SessionIdle

\* CMS1500Claim(...), the service lines built first
ConstructClaim ==
    /\ pc = "construct"
    /\ IF ClaimAccepted(claim_data)
       THEN cms1500_claim' = ClaimOf(claim_data) /\ pc' = "built"
       ELSE UNCHANGED cms1500_claim /\ pc' = "raised"
    /\ UNCHANGED <<coding_vars, text, llm_extract, extracted_data, overrides,
                   claim_data, validation_result, repeated_claim, request_vars, session_vars>>

NextClaim ==
    \/ ConstructClaim
    \/ ValidateClaim

SpecClaim == InitClaim /\ [][NextClaim]_vars

(***************************************************************************)
(* create_claim called on records of the caller's making: any of the       *)
(* patient, insurance and provider records may be None, and the insured's  *)
(* id may be passed as an override.                                        *)
(***************************************************************************)
IsoDob == <<"1", "9", "8", "0", "-", "0", "1", "-", "1", "5">>

SuppliedPatients ==
    {NotSupplied,
     [NoInfo(PatientFields) EXCEPT !.first_name = John, !.last_name = Doe,
                                   !.dob = IsoDob, !.sex = <<"M">>],
     [NoInfo(PatientFields) EXCEPT !.first_name = John, !.last_name = Doe,
                                   !.dob = IsoDob, !.sex = <<"F">>,
                                   !.state = <<"C", "A">>]}

SuppliedRelationships ==
    {None, << >>, <<"S", "e", "l", "f">>, <<"S", "P", "O", "U", "S", "E">>,
     <<"c", "h", "i", "l", "d">>, <<"P", "a", "r", "e", "n", "t">>}

SuppliedInsurances ==
    {NotSupplied}
        \cup {[NoInfo(InsuranceFields) EXCEPT !.policy_number = number,
                                              !.subscriber_relationship = relationship] :
                 number \in {None, PolicyNumber},
                 relationship \in SuppliedRelationships}

SuppliedProviders ==
    {NotSupplied, [NoInfo(ProviderFields) EXCEPT !.provider_npi = NPI]}

SuppliedOverrides ==
    {NoOverrides, [NoOverrides EXCEPT !.insured_id_number = PolicyNumber]}

\* suggest_codes from its arguments to the CodingResult it returns
SuggestCodes(enhanced, response, given_diagnoses, given_procedures, confidence) ==
    LET llm == IF enhanced THEN LLMSuggestCodes(response)
               ELSE [diagnoses |-> << >>, procedures |-> << >>]
        diagnoses == MergeDiagnosisSuggestions(given_diagnoses, llm.diagnoses)
        merged == MergeProcedureSuggestions(given_procedures, llm.procedures)
        letters_dict == AssignDiagnosisLetters(diagnoses)
        map == MapDiagnosesToProcedures(diagnoses, merged)
        procedures == UpdateDiagnosisPointers(merged, map, letters_dict)
        found == DetectMismatches(diagnoses, procedures, map)
    IN  [diagnoses |-> diagnoses, procedures |-> procedures,
         diagnosis_letters |-> letters_dict, diagnosis_procedure_map |-> map,
         mismatches |-> found,
         overall_confidence |->
             CalculateOverallConfidence(diagnoses, procedures, found, confidence)]

\* the CodingResult of suggest_codes for one extracted diagnosis and procedure
CodedVisit ==
    SuggestCodes(FALSE, LLMFailure, <<PatternDiagnosis(1)>>, <<PatternProcedure(1)>>,
                 NoConfidence)

InitGenerate ==
    /\ pc = "coded"
    /\ extracted_data \in
           {[NoExtraction EXCEPT !.patient = patient, !.insurance = insurance,
                                 !.provider = provider] :
               patient \in SuppliedPatients, insurance \in SuppliedInsurances,
               provider \in SuppliedProviders}
    /\ overrides \in SuppliedOverrides
    /\ use_llm = FALSE
    /\ llm_response = LLMFailure
    /\ existing_diagnoses = <<PatternDiagnosis(1)>>
    /\ existing_procedures = <<PatternProcedure(1)>>
    /\ extraction_confidence = NoConfidence
    /\ all_diagnoses = CodedVisit.diagnoses
    /\ all_procedures = CodedVisit.procedures
    /\ diagnosis_letters = CodedVisit.diagnosis_letters
    /\ dx_proc_map = CodedVisit.diagnosis_procedure_map
    /\ mismatches = CodedVisit.mismatches
    /\ overall_confidence = CodedVisit.overall_confidence
    /\ backfill_runs = 1
    /\ first_backfill = CodedVisit.procedures
    /\ text = NoText
    /\ llm_extract = LLMExtractFailure
    /\ claim_data = ClaimDefaults
    /\ cms1500_claim = NoClaim
    /\ validation_result = FreshResult
    /\ repeated_claim = NoClaim
    /\ RequestIdle
    /\ SessionIdle

NextGenerate ==
    \/ CreateClaim
    \/ ValidateClaim

SpecGenerate == InitGenerate /\ [][NextGenerate]_vars

(***************************************************************************)
(* The application session (src/app.py).  st.session_state holds           *)
(* authenticated, username, consent_given, extracted_data, coding_result    *)
(* and claim; extracted_data and coding_result are stored by the same      *)
(* handler, one after the other, so one is None exactly when the other is: *)
(* extracted_data = NotSupplied stands for both, and cms1500_claim =       *)
(* NoClaim for a claim of None.                                            *)
(***************************************************************************)
Users == {"alice", "bob"}

Visit(name, sex, dx, proc) ==
    [NoText EXCEPT !.name = name,
                   !.dob = <<"0", "1", "/", "1", "5", "/", "1", "9", "8", "0">>,
                   !.sex = sex, !.policy_number = PolicyNumber,
                   !.icd = <<DxCode(dx)>>,
                   !.cpt = <<[code |-> ProcCode(proc), modifier |-> << >>]>>]

\* two visits of different patients, and a text with nothing recognisable in it
SessionDocuments ==
    {Visit(<<John, Doe>>, <<"M">>, 1, 1), Visit(<<Michael, Doe>>, <<"F">>, 2, 2), NoText}

InitSession ==
    /\ pc = "login_page"
    /\ SessionIdle
    /\ use_llm = FALSE
    /\ llm_response = LLMFailure
    /\ llm_extract = LLMExtractFailure
    /\ existing_diagnoses = << >>
    /\ existing_procedures = << >>
    /\ extraction_confidence = NoConfidence
    /\ CodingStart
    /\ text = NoText
    /\ extracted_data = NotSupplied
    /\ overrides = NoOverrides
    /\ claim_data = ClaimDefaults
    /\ cms1500_claim = NoClaim
    /\ validation_result = FreshResult
    /\ repeated_claim = NoClaim
    /\ RequestIdle

\* login_page: the Login button with credentials that authenticate
Login ==
    /\ ~authenticated
    /\ \E user \in Users : username' = user
    /\ authenticated' = TRUE
    /\ pc' = "main_app"
    /\ UNCHANGED <<coding_vars, claim_vars, request_vars, consent_given, consents,
                   invoked_for>>

\* sidebar: the Logout button
Logout ==
    /\ authenticated
    /\ authenticated' = FALSE
    /\ username' = NoUser
    /\ pc' = "login_page"
    /\ UNCHANGED <<coding_vars, claim_vars, request_vars, consent_given, consents,
                   invoked_for>>

\* consent_dialog: the I Consent button
GiveConsent ==
    /\ authenticated
    /\ ~consent_given
    /\ consent_given' = TRUE
    /\ consents' = consents \cup {username}
    /\ UNCHANGED <<pc, coding_vars, claim_vars, request_vars, authenticated, username,
                   invoked_for>>

\* document_upload_section: the Process Document button, shown by main_app
\* once consent_dialog returns True
ProcessDocument ==
    /\ authenticated
    /\ consent_given
    /\ \E doc \in SessionDocuments :
        LET extracted == Extract(doc, use_llm, llm_extract)
            coding_result == SuggestCodes(use_llm, llm_response, extracted.diagnoses,
                                          extracted.procedures, NoConfidence)
        IN  /\ text' = doc
            /\ IF extracted.ok
               THEN /\ extracted_data' = extracted
                    /\ existing_diagnoses' = extracted.diagnoses
                    /\ existing_procedures' = extracted.procedures
                    /\ all_diagnoses' = coding_result.diagnoses
                    /\ all_procedures' = coding_result.procedures
                    /\ diagnosis_letters' = coding_result.diagnosis_letters
                    /\ dx_proc_map' = coding_result.diagnosis_procedure_map
                    /\ mismatches' = coding_result.mismatches
                    /\ overall_confidence' = coding_result.overall_confidence
                    /\ backfill_runs' = 1
                    /\ first_backfill' = coding_result.procedures
               ELSE UNCHANGED <<extracted_data, existing_diagnoses, existing_procedures,
                                all_diagnoses, all_procedures, diagnosis_letters,
                                dx_proc_map, mismatches, overall_confidence,
                                backfill_runs, first_backfill>>
    /\ invoked_for' = invoked_for \cup {username}
    /\ UNCHANGED <<pc, use_llm, llm_response, extraction_confidence, llm_extract,
                   overrides, claim_data, cms1500_claim, validation_result,
                   repeated_claim, request_vars, authenticated, username,
                   consent_given, consents>>

\* cms1500_section: the Generate CMS-1500 Claim button; an exception of
\* create_claim is caught and the session keeps the claim it had
GenerateClaim ==
    /\ authenticated
    /\ consent_given
    /\ extracted_data # NotSupplied
    /\ \E now \in Clock :
        LET built == CreateClaimData(extracted_data, CodingResult, NoOverrides, now)
        IN  IF built.ok /\ ClaimAccepted(built.data)
            THEN /\ claim_data' = built.data
                 /\ cms1500_claim' = ClaimOf(built.data)
            ELSE UNCHANGED <<claim_data, cms1500_claim>>
    /\ UNCHANGED <<pc, coding_vars, text, llm_extract, extracted_data, overrides,
                   validation_result, repeated_claim, request_vars, session_vars>>

NextSession ==
    \/ Login
    \/ Logout
    \/ GiveConsent
    \/ ProcessDocument
    \/ GenerateClaim

SpecSession == InitSession /\ [][NextSession]_vars

(***************************************************************************)
(* A ValidationResult on its own: any sequence of add_message calls.       *)
(***************************************************************************)
MaxMessages == 4     \* most messages added to one result

Severities == {"error", "warning", "info", "critical"}

Messages == {ValidationMessage("33a", sev, "NUCC-33a-FMT") : sev \in Severities}

InitResult ==
    /\ pc = "add_message"
    /\ validation_result = FreshResult
    /\ CodingIdle
    /\ text = NoText
    /\ llm_extract = LLMExtractFailure
    /\ extracted_data = NoExtraction
    /\ overrides = NoOverrides
    /\ claim_data = ClaimDefaults
    /\ cms1500_claim = NoClaim
    /\ repeated_claim = NoClaim
    /\ RequestIdle
    /\ SessionIdle

\* result.add_message(msg)
AddOneMessage ==
    /\ pc = "add_message"
    /\ Len(validation_result.messages) < MaxMessages
    /\ \E msg \in Messages : validation_result' = AddMessage(validation_result, msg)
    /\ UNCHANGED <<pc, coding_vars, text, llm_extract, extracted_data, overrides,
                   claim_data, cms1500_claim, repeated_claim, request_vars, session_vars>>

NextResult == AddOneMessage

SpecResult == InitResult /\ [][NextResult]_vars

(***************************************************************************)
(* C5.  A claim produced by create_claim with no explicit total_charge     *)
(* override has total_charge equal to the sum over its service lines of    *)
(* charges * days_or_units.                                                *)
(***************************************************************************)
Built == pc \in {"built", "validated"}

\* C5 as stated: every claim create_claim returns when no total_charge
\* override is passed carries the sum of charges * days_or_units of its lines.
TotalChargeRoundTripAsStated ==
    (Built /\ overrides.total_charge = Omitted)
        => cms1500_claim.total_charge = LineTotal(cms1500_claim.service_lines)

(***************************************************************************)
(* C6.  valid is false exactly when errors_count > 0, and stays false once *)
(* an error has been added.                                                *)
(***************************************************************************)
\* C6: after any sequence of add_message calls on a fresh ValidationResult,
\* valid is false if and only if errors_count > 0, and no add_message turns
\* a false valid back to true.
ValidIffNoErrors ==
    /\ [](validation_result.valid <=> validation_result.errors_count = 0)
    /\ [][(~validation_result.valid) => ~validation_result'.valid]_vars

\* an error was added, and a message that is no error after it
ValidIffNoErrorsWitness ==
    /\ pc = "add_message"
    /\ \E i, j \in 1..Len(validation_result.messages) :
        /\ i < j
        /\ validation_result.messages[i].severity = "error"
        /\ validation_result.messages[j].severity # "error"
    /\ ~validation_result.valid
    /\ validation_result.errors_count > 0

(***************************************************************************)
(* C7.  A billing provider NPI that is present and not exactly 10 digits   *)
(* is reported by validate as an error finding on item 33a.                *)
(***************************************************************************)
HasFinding(res, field, severity, rule_id) ==
    \E i \in 1..Len(res.messages) :
        res.messages[i] = ValidationMessage(field, severity, rule_id)

MalformedNPI(npi) == Truthy(npi) /\ ~TenDigits(npi)

\* C7 as stated: a claim asked for with a malformed billing NPI, and nothing
\* else wrong, is built, and validate reports the NPI as a format error on 33a.
MalformedNPIReportedAsStated ==
    (/\ MalformedNPI(claim_data.billing_provider_npi)
     /\ ClaimAccepted([claim_data EXCEPT !.billing_provider_npi = None]))
        => /\ pc # "raised"
           /\ pc = "validated"
                => HasFinding(validation_result, "33a", "error", "NUCC-33a-FMT")

(***************************************************************************)
(* C8.  A pointer letter that references no populated diagnosis slot is    *)
(* reported by validate as an error finding for its service line.          *)
(***************************************************************************)
\* the letters of line idx that reference no populated slot of the data
DanglingLetters(data, idx) ==
    {data.service_lines[idx].diagnosis_pointer[j] :
        j \in {k \in 1..Len(data.service_lines[idx].diagnosis_pointer) :
                 ~Truthy(DiagnosisByLetter(data,
                             data.service_lines[idx].diagnosis_pointer[k]))}}

WithPointer(data, idx, pointer) ==
    [data EXCEPT !.service_lines[idx].diagnosis_pointer = pointer]

\* C8 as stated: a claim asked for with a service line whose pointer holds a
\* letter of no populated diagnosis slot, and nothing else wrong, is built,
\* and validate reports an error for that line's pointer.
UndefinedPointerReportedAsStated ==
    \A idx \in 1..Len(claim_data.service_lines) :
        (/\ DanglingLetters(claim_data, idx) # {}
         /\ ClaimAccepted(WithPointer(claim_data, idx, <<"A">>)))
            => /\ pc # "raised"
               /\ pc = "validated"
                    => HasFinding(validation_result, LineField(idx, "E"), "error",
                                  "CMS-24E-REF")

(***************************************************************************)
(* C9.  Every claim that exists has between 1 and 6 service lines.         *)
(***************************************************************************)
\* C9 as stated: a claim the constructor returned has 1 to 6 service lines,
\* whether the lines were passed or left out.
ServiceLineCountAsStated ==
    Built => Len(cms1500_claim.service_lines) \in 1..MaxServiceLines

(***************************************************************************)
(* C10.  The pipeline on a document with no entities runs to the end.      *)
(***************************************************************************)
NoEntities ==
    /\ text = NoText
    /\ use_llm => (llm_extract = LLMExtractFailure /\ llm_response = LLMFailure)

\* C10 as stated: on a document from which nothing is extracted, and with no
\* overrides, no stage of extract, suggest_codes, create_claim, validate raises.
SparseDocumentCompletesAsStated ==
    (NoEntities /\ overrides = NoOverrides) => pc # "raised"

\* C11: with model enhancement enabled, when the model step fails (the request
\* fails, or a statement merging its output raises), extract does not raise and
\* returns the patient, insurance, provider, diagnoses and procedures of
\* pattern-only extraction of the same text.
ModelStepFailed ==
    use_llm /\ (~llm_extract.ok \/ RaisedAt(text, llm_extract) <= 5)
PatternOnly == Extract(text, FALSE, LLMExtractFailure)
ExtractFallbackAsStated ==
    (pc # "extract" /\ ModelStepFailed) =>
        /\ extracted_data.ok
        /\ extracted_data.patient = PatternOnly.patient
        /\ extracted_data.insurance = PatternOnly.insurance
        /\ extracted_data.provider = PatternOnly.provider
        /\ extracted_data.diagnoses = PatternOnly.diagnoses
        /\ extracted_data.procedures = PatternOnly.procedures

\* C12 as stated: every field passed to create_claim as an override has
\* exactly the supplied value in the claim that create_claim returns.
OverrideWinsAsStated ==
    Built =>
        /\ overrides.total_charge # Omitted
               => cms1500_claim.total_charge = overrides.total_charge
        /\ overrides.lines_given
               => cms1500_claim.service_lines = overrides.service_lines

\* C13 as stated: with no mismatches and no extraction confidence, an average
\* diagnosis confidence of 0.9 and an average procedure confidence of 0.8 give
\* an overall confidence greater than 0.8.
AverageIs(items, tenths) ==
    items # << >> /\ SumConfidence(items, 1) = tenths * Len(items)
HighConfidenceAsStated ==
    (/\ pc = "coded"
     /\ mismatches = << >>
     /\ extraction_confidence = NoConfidence
     /\ AverageIs(all_diagnoses, 9)
     /\ AverageIs(all_procedures, 8))
        => 10 * overall_confidence.num > 8 * overall_confidence.den

\* C14 as stated: for a text with the line "Patient Name: w1 w2 w3" and a
\* "DOB: MM/DD/YYYY" line, pattern extraction returns first_name w1,
\* middle_name w2, last_name w3 and dob YYYY-MM-DD.
SlashDate(d) == Len(d) = 10 /\ d[3] = "/" /\ d[6] = "/"
IsoDate(d) == SubSeq(d, 7, 10) \o <<"-">> \o SubSeq(d, 1, 2) \o <<"-">> \o SubSeq(d, 4, 5)
ThreeWordNameAsStated ==
    (pc # "extract" /\ ~use_llm /\ Len(text.name) = 3 /\ SlashDate(text.dob)) =>
        /\ extracted_data.patient.first_name = text.name[1]
        /\ extracted_data.patient.middle_name = text.name[2]
        /\ extracted_data.patient.last_name = text.name[3]
        /\ extracted_data.patient.dob = IsoDate(text.dob)

(***************************************************************************)
(* One invocation of suggest_codes with model enhancement, the request to *)
(* the model service included (src/llm/ollama.py).  The client posts      *)
(* through a session whose adapter carries Retry(total=3): a POST is not  *)
(* among the methods the adapter repeats after a read error or a status   *)
(* of status_forcelist, but a POST whose connection failed is repeated    *)
(* while the total lasts.                                                  *)
(***************************************************************************)
PostOutcomes == {"connection_error", "read_error", "status_error", "response"}

Retried(outcome, total) == outcome = "connection_error" /\ total > 0

InitRequest ==
    /\ pc = "post"
    /\ use_llm = TRUE
    /\ llm_response \in LLMResponses
    /\ existing_diagnoses \in SeqsUpTo(DiagnosisPool, 1)
    /\ existing_procedures \in SeqsUpTo(ProcedurePool, 1)
    /\ extraction_confidence = NoConfidence
    /\ CodingStart
    /\ ClaimIdle

\* self.session.post(...) in completion, called once by structured_extraction;
\* what _llm_suggest_codes returns is the answer, or nothing when the call raised
PostRequest ==
    /\ pc = "post"
    /\ \E outcome \in PostOutcomes :
        /\ post_attempts' = post_attempts + 1
        /\ IF Retried(outcome, retry_total)
           THEN /\ retry_total' = retry_total - 1
                /\ pc' = "post"
                /\ UNCHANGED llm_response
           ELSE /\ UNCHANGED retry_total
                /\ pc' = "suggest_codes"
                /\ llm_response' = IF outcome = "response" THEN llm_response
                                   ELSE LLMFailure
    /\ UNCHANGED <<use_llm, existing_diagnoses, existing_procedures,
                   extraction_confidence, all_diagnoses, all_procedures,
                   diagnosis_letters, dx_proc_map, mismatches, overall_confidence,
                   backfill_runs, first_backfill, claim_vars, session_vars>>

NextRequest ==
    \/ PostRequest
    \/ MergeSuggestions
    \/ AssignLetters
    \/ MapDiagnoses
    \/ BackfillPointers
    \/ FindMismatches
    \/ ScoreConfidence

SpecRequest == InitRequest /\ [][NextRequest]_vars

\* C15 as stated: within one invocation with model enhancement enabled at
\* most one request goes to the model service; a request that failed is not
\* sent again.
OneRequestAsStated == post_attempts <= 1

\* C16 as stated: two invocations of create_claim with equal extracted data,
\* coding result and overrides return equal claims.
DeterministicClaimAsStated ==
    pc = "built_again" => repeated_claim = cms1500_claim

\* C17 as stated: the overall confidence equals
\* clamp(0, 1, 0.6*avg(diagnoses) + 0.3*avg(procedures)
\*             + 0.1*extraction_confidence (when one is given) - penalty),
\* penalty = min(0.4, 0.15*errors + 0.05*warnings).  StatedScore is that
\* value as a fraction of thousandths over the two list lengths.
StatedScore(diagnoses, procedures, found, extraction) ==
    LET nd == Max(1, Len(diagnoses))
        np == Max(1, Len(procedures))
        den == 1000 * nd * np
        averages == 60 * SumConfidence(diagnoses, 1) * np
                        + 30 * SumConfidence(procedures, 1) * nd
        extracted == IF extraction # NoConfidence THEN 10 * extraction * nd * np ELSE 0
        penalty == Min(150 * CountSeverity(found, "error")
                           + 50 * CountSeverity(found, "warning"), 400) * nd * np
    IN  [num |-> Max(0, Min(den, averages + extracted - penalty)), den |-> den]
ConfidenceFormulaAsStated ==
    pc = "coded" =>
        LET stated == StatedScore(all_diagnoses, all_procedures, mismatches,
                                  extraction_confidence)
        IN  overall_confidence.num * stated.den = stated.num * overall_confidence.den

\* C18 as stated: when existing diagnoses share a code, the merged list holds
\* exactly one entry for that code and no existing entry of that code has a
\* higher confidence than the one kept (model enhancement off).
ExistingDedupAsStated ==
    (pc # "suggest_codes" /\ ~use_llm) =>
        \A i \in 1..Len(existing_diagnoses) :
            LET code == existing_diagnoses[i].code
                kept == {j \in 1..Len(all_diagnoses) : all_diagnoses[j].code = code}
            IN  /\ Cardinality(kept) = 1
                /\ \A j \in kept : \A k \in 1..Len(existing_diagnoses) :
                       existing_diagnoses[k].code = code
                           => all_diagnoses[j].confidence
                                  >= existing_diagnoses[k].confidence

\* C19 as stated: a merged diagnosis that is backed by a source span keeps the
\* rationale made from that span; a model suggestion of the same code may
\* raise its confidence and description but does not replace the rationale.
SourceRationaleKeptAsStated ==
    pc # "suggest_codes" =>
        \A j \in 1..Len(all_diagnoses) :
            all_diagnoses[j].source_text # ""
                => all_diagnoses[j].rationale
                       = "Found in source: " \o all_diagnoses[j].source_text

\* C20: in the procedure merge, when an existing procedure is given no model
\* suggestion is in the merged list; when none is given the merged list is
\* the model's suggestions of confidence at least 0.6, the earliest of each
\* base code, in the model's order, and none below 0.6.
LLMProcedures ==
    IF use_llm THEN LLMSuggestCodes(llm_response).procedures ELSE << >>
Strong(items, i) == items[i].confidence >= LLMThreshold
EarliestStrong(items, i) ==
    /\ Strong(items, i)
    /\ ~\E k \in 1..(i - 1) :
           Strong(items, k) /\ SplitFirst(items[k].code) = SplitFirst(items[i].code)
RECURSIVE EarliestStrongFrom(_, _)
EarliestStrongFrom(items, i) ==
    IF i > Len(items) THEN << >>
    ELSE (IF EarliestStrong(items, i) THEN <<items[i]>> ELSE << >>)
             \o EarliestStrongFrom(items, i + 1)
ProcedureMergeRule ==
    pc = "merged" =>
        /\ existing_procedures # << >> =>
               \A j \in 1..Len(all_procedures) : \A k \in 1..Len(LLMProcedures) :
                   all_procedures[j] # LLMProcedures[k]
        /\ existing_procedures = << >> =>
               all_procedures = EarliestStrongFrom(LLMProcedures, 1)
ProcedureMergeRuleWitness ==
    /\ pc = "merged"
    /\ existing_procedures = << >>
    /\ all_procedures # << >>
    /\ \E i \in 1..Len(LLMProcedures) : ~Strong(LLMProcedures, i)
    /\ \E i \in 1..Len(LLMProcedures) :
           Strong(LLMProcedures, i) /\ ~EarliestStrong(LLMProcedures, i)

\* C21 as stated: two extracted procedures with the same code and different
\* modifiers are distinct entries, and both are among the procedures of the
\* CodingResult that suggest_codes returns.
ProcedureIdentityAsStated ==
    pc = "coded" =>
        \A i, j \in 1..Len(existing_procedures) :
            (/\ existing_procedures[i].code = existing_procedures[j].code
             /\ existing_procedures[i].modifier # existing_procedures[j].modifier)
                => \E k \in 1..Len(all_procedures) :
                       all_procedures[k].code = CodeKey(existing_procedures[j])

\* C22: mismatch detection emits exactly one warning for each procedure that
\* no diagnosis maps to, one info for each diagnosis that maps to no
\* procedure and one error for each repeated occurrence of a diagnosis code,
\* and nothing else; for diagnoses [J20.9, I10] and the map
\* {J20.9: [99213], I10: []} the result is exactly one info finding, for I10.
Unlinked(i) ==
    ~\E m \in 1..Len(dx_proc_map) : all_procedures[i].code \in Range(dx_proc_map[m].v)
Unused(i) ==
    \A m \in 1..Len(dx_proc_map) :
        dx_proc_map[m].k = all_diagnoses[i].code => dx_proc_map[m].v = << >>
Repeated(i) == \E j \in 1..(i - 1) : all_diagnoses[j].code = all_diagnoses[i].code
Found(type, severity, code) ==
    Cardinality({n \in 1..Len(mismatches) :
                    mismatches[n] = Mismatch(type, severity, code)})
Scenario3 ==
    /\ [i \in 1..Len(all_diagnoses) |-> all_diagnoses[i].code] = <<DxCode(1), DxCode(2)>>
    /\ dx_proc_map = <<[k |-> DxCode(1), v |-> <<ProcCode(1)>>],
                       [k |-> DxCode(2), v |-> << >>]>>
    /\ [i \in 1..Len(all_procedures) |-> all_procedures[i].code] = <<ProcCode(1)>>
MismatchesExact ==
    pc = "checked" =>
        LET warned == {i \in 1..Len(all_procedures) : Unlinked(i)}
            informed == {i \in 1..Len(all_diagnoses) : Unused(i)}
            repeated == {i \in 1..Len(all_diagnoses) : Repeated(i)}
        IN  /\ Len(mismatches)
                   = Cardinality(warned) + Cardinality(informed) + Cardinality(repeated)
            /\ \A i \in 1..Len(all_procedures) :
                   Found("missing_diagnosis", "warning", all_procedures[i].code)
                       = Cardinality({j \in warned :
                                         all_procedures[j].code = all_procedures[i].code})
            /\ \A i \in 1..Len(all_diagnoses) :
                   /\ Found("diagnosis_without_procedure", "info", all_diagnoses[i].code)
                          = Cardinality({j \in informed :
                                            all_diagnoses[j].code = all_diagnoses[i].code})
                   /\ Found("duplicate_code", "error", all_diagnoses[i].code)
                          = Cardinality({j \in repeated :
                                            all_diagnoses[j].code = all_diagnoses[i].code})
            /\ Scenario3 =>
                   mismatches = <<Mismatch("diagnosis_without_procedure", "info",
                                           DxCode(2))>>
MismatchesExactWitness ==
    /\ pc = "checked"
    /\ \E i \in 1..Len(all_procedures) : Unlinked(i)
    /\ \E i \in 1..Len(all_diagnoses) : Unused(i)
    /\ \E i \in 1..Len(all_diagnoses) : Repeated(i)
    /\ Len(mismatches) >= 3

\* C23 as stated: in the CodingResult that suggest_codes returns, every
\* procedure's diagnosis_pointers are exactly the letters, sorted and without
\* repeats, of the diagnoses whose entry in diagnosis_procedure_map contains
\* that procedure, whether or not a diagnosis maps to it and whether or not it
\* arrived with explicit pointers.
LetterIndex(letter) == CHOOSE i \in 1..Len(Letters) : Letters[i] = letter
MappedLetters(proc_code) ==
    {DictGet(diagnosis_letters, dx_proc_map[m].k) :
        m \in {n \in 1..Len(dx_proc_map) :
                  /\ proc_code \in Range(dx_proc_map[n].v)
                  /\ DictHas(diagnosis_letters, dx_proc_map[n].k)}}
PointersReverseMapAsStated ==
    pc = "coded" =>
        \A i \in 1..Len(all_procedures) :
            LET pointers == PointersOf(all_procedures[i])
            IN  /\ Range(pointers) = MappedLetters(all_procedures[i].code)
                /\ \A a, b \in 1..Len(pointers) :
                       a < b => /\ pointers[a] \in Range(Letters)
                                /\ pointers[b] \in Range(Letters)
                                /\ LetterIndex(pointers[a]) < LetterIndex(pointers[b])

\* C24: when the model's output is merged into the pattern-extracted patient,
\* insurance and provider records, every field the patterns filled keeps its
\* pattern value; a field holds the model's value only when the pattern value
\* is empty or null.
Extracted == pc # "extract" /\ extracted_data.ok
PatternWinsIn(base, got, llm_data) ==
    \A f \in DOMAIN base :
        /\ Truthy(base[f]) => got[f] = base[f]
        /\ got[f] # base[f] => (~Truthy(base[f]) /\ use_llm /\ got[f] = llm_data[f])
PatternWins ==
    Extracted =>
        /\ PatternWinsIn(ExtractPatientInfo(text), extracted_data.patient,
                         llm_extract.patient)
        /\ PatternWinsIn(ExtractInsuranceInfo(text), extracted_data.insurance,
                         llm_extract.insurance)
        /\ PatternWinsIn(ExtractProviderInfo(text), extracted_data.provider,
                         llm_extract.provider)
PatternWinsWitness ==
    /\ Extracted
    /\ use_llm
    /\ \E f \in PatientFields :
           /\ Truthy(ExtractPatientInfo(text)[f])
           /\ Truthy(llm_extract.patient[f])
           /\ llm_extract.patient[f] # ExtractPatientInfo(text)[f]
           /\ extracted_data.patient[f] = ExtractPatientInfo(text)[f]
    /\ \E f \in PatientFields :
           /\ ~Truthy(ExtractPatientInfo(text)[f])
           /\ Truthy(llm_extract.patient[f])
           /\ extracted_data.patient[f] = llm_extract.patient[f]

\* C25 as stated: in every PatientInfo of an ExtractedData that extract
\* returns, with or without model enhancement, sex is unset or one of M, F, U.
SexNormalizedAsStated ==
    Extracted => extracted_data.patient.sex \in {None, <<"M">>, <<"F">>, <<"U">>}

\* C26 as stated: in every claim that create_claim returns exactly one of the
\* four relationship flags is true; it is chosen case-insensitively from the
\* subscriber-relationship string and is self when no relationship is
\* available, including when no insurance record is supplied.
FlagsOf(claim) ==
    <<claim.patient_relationship_self, claim.patient_relationship_spouse,
      claim.patient_relationship_child, claim.patient_relationship_other>>
StatedRelationship ==
    IF extracted_data.insurance = NotSupplied THEN Self
    ELSE IF ~Truthy(extracted_data.insurance.subscriber_relationship) THEN Self
    ELSE Lower(extracted_data.insurance.subscriber_relationship)
OneRelationshipAsStated ==
    pc \in {"built", "validated"} =>
        FlagsOf(cms1500_claim) =
            <<StatedRelationship = Self, StatedRelationship = Spouse,
              StatedRelationship = Child,
              StatedRelationship \notin {Self, Spouse, Child}>>

\* C27 as stated: for every diagnosis code in a claim's diagnosis slots,
\* validate emits an ICD-10 format error for it if and only if the code does
\* not have the form: one letter, two digits, optionally a dot and one to four
\* digits.
StatedICD10Form(code) ==
    /\ Len(code) >= 3
    /\ code[1] \in Range(Alphabet)
    /\ code[2] \in Digits /\ code[3] \in Digits
    /\ \/ Len(code) = 3
       \/ /\ Len(code) \in 5..8
          /\ code[4] = "."
          /\ \A i \in 5..Len(code) : code[i] \in Digits
ICD10ErrorIffMalformedAsStated ==
    pc = "validated" =>
        LET listed == DiagnosesList(cms1500_claim)
        IN  \A i \in 1..Len(listed) :
                (\E n \in 1..Len(validation_result.messages) :
                     validation_result.messages[n]
                         = ValidationMessage(DiagnosisField(i), "error",
                                             "CMS-21-ICD10-FMT"))
                    <=> ~StatedICD10Form(listed[i])

\* C28 as stated: under any sequence of login, consent, document processing
\* and logout, extract and suggest_codes are invoked only while the user
\* logged in has given consent, so every user a document was processed for
\* is a user who consented.
ConsentGatesProcessingAsStated == invoked_for \subseteq consents

\* C30 as stated: under any sequence of document processing and claim
\* generation, a claim held in the session is a claim generated from the
\* extracted data and coding result that the session holds now.
SessionClaimCurrentAsStated ==
    cms1500_claim # NoClaim =>
        /\ extracted_data # NotSupplied
        /\ \E now \in Clock :
               LET built == CreateClaimData(extracted_data, CodingResult, NoOverrides, now)
               IN  /\ built.ok
                   /\ ClaimAccepted(built.data)
                   /\ cms1500_claim = ClaimOf(built.data)

\* C29 as stated: in the claim that create_claim builds from the CodingResult
\* of suggest_codes, every letter of every service line's diagnosis_pointer
\* references a populated diagnosis slot of the claim, and validate reports
\* no pointer reference error on it.
PipelineBuilt == Built /\ ~overrides.lines_given
PipelinePointersResolveAsStated ==
    PipelineBuilt =>
        /\ \A idx \in 1..Len(cms1500_claim.service_lines) :
               \A j \in 1..Len(cms1500_claim.service_lines[idx].diagnosis_pointer) :
                   Truthy(DiagnosisByLetter(
                       cms1500_claim,
                       cms1500_claim.service_lines[idx].diagnosis_pointer[j]))
        /\ pc = "validated" =>
               ~\E n \in 1..Len(validation_result.messages) :
                    validation_result.messages[n].rule_id = "CMS-24E-REF"

=============================================================================
